---- MODULE Spec2Model ----
(***************************************************************************)
(* Block tick & state-transition engine of libcraft/blocks:                *)
(*   BlockTickScheduler     (block_ticking.rs)                             *)
(*   BlockTransitionManager (block_transitions.rs)                         *)
(*   BlockTickExecutor      (tick_executor.rs)                             *)
(* Option<T> values are modelled as sets with at most one element:         *)
(* None is {} and Some(x) is {x}.  Instant values are natural numbers.     *)
(***************************************************************************)
EXTENDS Integers, Sequences, FiniteSets, Bags, TLC

VARIABLES
    pending_ticks,      \* BlockTickScheduler.pending_ticks: BinaryHeap<BlockTick>, a bag
    position_to_tick,   \* BlockTickScheduler.position_to_tick: position -> Option<BlockTick>
    random_tick_speed,  \* BlockTickScheduler.random_tick_speed
    transitions,        \* BlockTransitionManager.transitions: Vec<BlockStateTransition>
    now,                \* the monotonic clock read by Instant::now()
    world,              \* what block_getter reports: position -> Option<(kind, properties)>
    lastOp,             \* observer: the last call made and its arguments
    handled,            \* observer: what the tick handler saw during the last call, in order
    live,               \* observer: per position, the tick of its latest schedule_tick
                        \* call, until process_ticks yields a tick for the position
    expected,           \* observer: for each handler call of the last process_ticks,
                        \* what live held for its position when it was made
    q_kind, q_props, q_result,  \* check_transition query: arguments and returned value
    registered_chunks,  \* BlockWorldIntegration.registered_chunks: the keys of the map
    pending_updates,    \* BlockWorldIntegration.pending_updates: Vec<BlockUpdate>
    current_tick,       \* BlockWorldIntegration.current_tick
    q_context,          \* the world-context conditions that are true of the queried block
    spawn_rules         \* EntitySpawnManager.rules: Vec<SpawnRule>

vars == <<pending_ticks, position_to_tick, random_tick_speed, transitions, now, world,
          lastOp, handled, live, expected, q_kind, q_props, q_result,
          registered_chunks, pending_updates, current_tick, q_context, spawn_rules>>

schedVars == <<pending_ticks, position_to_tick, live>>
queryVars == <<q_kind, q_props, q_result>>
integrationVars == <<registered_chunks, pending_updates, current_tick, q_context, spawn_rules>>

---------------------------------------------------------------------------
(* Bounds of the model *)

MaxTime == 1        \* the clock runs from 0 to MaxTime
MaxQueue == 3       \* schedule_tick is not called with MaxQueue entries in the heap
MaxSpeed == 2       \* random_tick_speed: 0..MaxSpeed
MaxCand == 2        \* length of the candidate list given to process_random_ticks
MaxRules == 2       \* length of the rule tables drawn for check_transition queries
MaxPending == 2     \* an update is enqueued only while fewer are pending
MaxTick == 2        \* update is called while current_tick is below MaxTick
MaxSpawnRules == 2  \* register_rule is called while fewer spawn rules are registered

---------------------------------------------------------------------------
(* Data *)

None == {}
Some(x) == {x}

Positions == {<<0, 64, 0>>, <<1, 64, 0>>}

\* The positions of the modelled part of the world: a block, its six
\* neighbours; block_getter reports no block anywhere else
AllPositions ==
    {<<0, 64, 0>>, <<1, 64, 0>>, <<-1, 64, 0>>, <<0, 65, 0>>, <<0, 63, 0>>,
     <<0, 64, 1>>, <<0, 64, -1>>}

\* The delays (in clock units) and priorities passed to schedule_tick
Delays == {0, 1}
Priorities == {0, 1}

Kinds == {"Stone", "Dirt", "Copper", "ExposedCopper"}

TickTypes == {"Random", "Scheduled"}

PropNames == {"powered", "lit"}
PropValues == {"true", "false"}

\* BlockProperties.properties: HashMap<String, String>
PropMaps == UNION {[D -> PropValues] : D \in SUBSET PropNames}

NoProps == [n \in {} |-> "true"]

\* BlockProperties::get
PropGet(properties, name) ==
    IF name \in DOMAIN properties THEN Some(properties[name]) ELSE None

---------------------------------------------------------------------------
(* BlockTransitionManager (block_transitions.rs) *)

\* TransitionCondition; RandomTick carries its probability in percent
ExposedToSky == [type |-> "ExposedToSky"]
Connected(kind) == [type |-> "Connected", kind |-> kind]
RedstonePowered == [type |-> "RedstonePowered"]
InBiome(name) == [type |-> "InBiome", name |-> name]
RandomTick(percent) == [type |-> "RandomTick", p |-> percent]
Custom(func) == [type |-> "Custom", func |-> func]

\* The fn(&BlockProperties) -> bool pointers a Custom condition is built with
CustomFns == {"is_lit", "always"}

ApplyCustom(func, properties) ==
    IF func = "is_lit" THEN PropGet(properties, "lit") = Some("true") ELSE TRUE

\* BlockStateTransition (transition_time is never read)
Rule(source, target, conds) ==
    [source_kind |-> source, target_kind |-> target, conditions |-> conds]

\* A check that takes a block as powered when the key is there
CheckConditionPoweredKey(condition, properties) ==
    CASE condition.type = "ExposedToSky" -> FALSE
      [] condition.type = "Connected" -> FALSE
      [] condition.type = "RedstonePowered" -> PropGet(properties, "powered") # None
      [] condition.type = "InBiome" -> FALSE
      [] condition.type = "RandomTick" -> FALSE
      [] condition.type = "Custom" -> ApplyCustom(condition.func, properties)

\* A check that takes the chance of a RandomTick condition as met
CheckConditionChanceMet(condition, properties) ==
    CASE condition.type = "ExposedToSky" -> FALSE
      [] condition.type = "Connected" -> FALSE
      [] condition.type = "RedstonePowered" ->
            (\E v \in PropGet(properties, "powered") : v = "true")
      [] condition.type = "InBiome" -> FALSE
      [] condition.type = "RandomTick" -> TRUE
      [] condition.type = "Custom" -> ApplyCustom(condition.func, properties)

\* fn check_condition
CheckCondition(condition, properties) ==
    CASE condition.type = "ExposedToSky" -> FALSE
      [] condition.type = "Connected" -> FALSE
      [] condition.type = "RedstonePowered" ->
            (\E v \in PropGet(properties, "powered") : v = "true")
      [] condition.type = "InBiome" -> FALSE
      [] condition.type = "RandomTick" -> FALSE
      [] condition.type = "Custom" -> ApplyCustom(condition.func, properties)

\* A rule without conditions is never satisfied
ConditionsMetNonEmpty(transition, properties) ==
    /\ transition.conditions # << >>
    /\ \A i \in 1..Len(transition.conditions) :
            CheckCondition(transition.conditions[i], properties)

\* conditions.iter().any(..) in place of all(..)
ConditionsMetAny(transition, properties) ==
    \E i \in 1..Len(transition.conditions) :
        CheckCondition(transition.conditions[i], properties)

\* transition.conditions.iter().all(|c| self.check_condition(c, properties))
ConditionsMet(transition, properties) ==
    \A i \in 1..Len(transition.conditions) :
        CheckCondition(transition.conditions[i], properties)

\* the for loop of check_transition, from rule i on
RECURSIVE CheckFrom(_, _, _, _)
CheckFrom(rules, i, kind, properties) ==
    IF i > Len(rules) THEN None
    ELSE IF rules[i].source_kind # kind THEN CheckFrom(rules, i + 1, kind, properties)
    ELSE IF ConditionsMet(rules[i], properties) THEN Some(rules[i].target_kind)
    ELSE CheckFrom(rules, i + 1, kind, properties)

\* check_transition keeping the last rule that matches instead of returning
\* at the first
CheckTransitionLastMatch(rules, kind, properties) ==
    LET matches == {i \in 1..Len(rules) :
                        /\ rules[i].source_kind = kind
                        /\ ConditionsMet(rules[i], properties)}
    IN  IF matches = {} THEN None
        ELSE Some(rules[CHOOSE i \in matches : \A j \in matches : j <= i].target_kind)

\* fn check_transition
CheckTransition(rules, kind, properties) == CheckFrom(rules, 1, kind, properties)

\* Copper rules with a way back from the last stage
CopperRulesWithReversal ==
    << Rule("Copper", "ExposedCopper", <<RandomTick(5)>>),
       Rule("ExposedCopper", "WeatheredCopper", <<RandomTick(5)>>),
       Rule("WeatheredCopper", "OxidizedCopper", <<RandomTick(5)>>),
       Rule("CutCopper", "ExposedCutCopper", <<RandomTick(5)>>),
       Rule("OxidizedCopper", "Copper", <<RandomTick(5)>>) >>

\* fn register_copper_transitions, on an empty manager
CopperRules ==
    << Rule("Copper", "ExposedCopper", <<RandomTick(5)>>),
       Rule("ExposedCopper", "WeatheredCopper", <<RandomTick(5)>>),
       Rule("WeatheredCopper", "OxidizedCopper", <<RandomTick(5)>>),
       Rule("CutCopper", "ExposedCutCopper", <<RandomTick(5)>>) >>

---------------------------------------------------------------------------
(* BlockTickScheduler (block_ticking.rs) *)

\* struct BlockTick
BlockTick(position, kind, scheduled_time, tick_type, priority) ==
    [position |-> position, kind |-> kind, scheduled_time |-> scheduled_time,
     tick_type |-> tick_type, priority |-> priority]

\* i32::cmp, Instant::cmp : 1 is Greater, 0 is Equal, -1 is Less
IntCmp(a, b) == IF a > b THEN 1 ELSE IF a < b THEN -1 ELSE 0

\* Ord for BlockTick without the Reverse: the latest tick is the greatest
TickCmpNoReverse(self, other) ==
    IF IntCmp(self.scheduled_time, other.scheduled_time) # 0
    THEN IntCmp(self.scheduled_time, other.scheduled_time)
    ELSE IntCmp(self.priority, other.priority)

\* impl Ord for BlockTick: Reverse(scheduled_time), then priority
TickCmp(self, other) ==
    IF IntCmp(other.scheduled_time, self.scheduled_time) # 0
    THEN IntCmp(other.scheduled_time, self.scheduled_time)
    ELSE IntCmp(self.priority, other.priority)

\* BinaryHeap::peek / pop: a greatest element of the heap; which one among
\* elements that compare Equal is left to the heap's layout
HeapTops(heap) ==
    {t \in BagToSet(heap) : \A u \in BagToSet(heap) : TickCmp(t, u) >= 0}

\* The heap after schedule_tick's search for the existing tick of the position:
\* iter().position(..) finds the index of an entry of that position, the
\* closure given to map takes the nth element of an iterator over the heap, and
\* the value is dropped at the end of the statement.  No removing method of
\* BinaryHeap is called, so the heap keeps the entry that was to be replaced.
HeapAfterReplaceScan(heap, existing_tick) == heap

\* A schedule_tick that pushes onto an emptied heap
ScheduleHeapAlone(heap, map, tick) == SetToBag({tick})

\* fn schedule_tick: the heap it leaves
ScheduleHeap(heap, map, tick) ==
    LET scanned == IF map[tick.position] # None
                   THEN HeapAfterReplaceScan(heap, CHOOSE t \in map[tick.position] : TRUE)
                   ELSE heap
    IN  scanned (+) SetToBag({tick})

\* fn schedule_tick: the position map it leaves
ScheduleMap(map, tick) == [map EXCEPT ![tick.position] = Some(tick)]

\* The loop breaking on scheduled_time >= now: a tick due exactly now stays
RECURSIVE PopRunsBreakEarly(_, _)
PopRunsBreakEarly(heap, t) ==
    LET tops == HeapTops(heap)
    IN  IF tops = {} \/ (\E x \in tops : x.scheduled_time >= t)
        THEN {<< >>}
        ELSE UNION { {<<x>> \o r : r \in PopRunsBreakEarly(heap (-) SetToBag({x}), t)}
                     : x \in tops }

\* The while loop of process_ticks at clock value t: the sequences of ticks it
\* can pop, in pop order
RECURSIVE PopRuns(_, _)
PopRuns(heap, t) ==
    LET tops == HeapTops(heap)
    IN  IF tops = {} \/ (\E x \in tops : x.scheduled_time > t)
        THEN {<< >>}
        ELSE UNION { {<<x>> \o r : r \in PopRuns(heap (-) SetToBag({x}), t)} : x \in tops }

\* A loop that takes a tick out of the heap once however often it handed it on
RunBagOnce(run) == SetToBag({run[i] : i \in 1..Len(run)})

\* The bag of the ticks of a pop sequence
RECURSIVE RunBag(_)
RunBag(run) ==
    IF run = << >> THEN EmptyBag ELSE SetToBag({Head(run)}) (+) RunBag(Tail(run))

\* A process_ticks that leaves the position map as it was
MapAfterRunKept(map, run) == map

\* fn process_ticks: the position map after the pops of run
MapAfterRun(map, run) ==
    [p \in DOMAIN map |->
        IF \E i \in 1..Len(run) : run[i].position = p THEN None ELSE map[p]]

---------------------------------------------------------------------------
(* BlockTickExecutor (tick_executor.rs) and the world behind its closures *)

\* block_getter(pos)
BlockGetter(w, pos) == IF pos \in DOMAIN w THEN w[pos] ELSE None

\* block_setter(pos, kind): the write is visible to the next block_getter(pos);
\* the block keeps its properties
BlockSetter(w, pos, kind) ==
    [w EXCEPT ![pos] = {[kind |-> kind, props |-> b.props] : b \in w[pos]}]

\* The closure without its current_kind != kind check
TickTargetNoKindCheck(rules, tick, current) ==
    IF current = None THEN None
    ELSE LET cur == CHOOSE b \in current : TRUE
         IN  CheckTransition(rules, cur.kind, cur.props)

\* A closure that looks up the rule of the kind the tick recorded
TickTargetOfTickKind(rules, tick, current) ==
    IF current = None THEN None
    ELSE LET cur == CHOOSE b \in current : TRUE
         IN  CheckTransition(rules, tick.kind, cur.props)

\* The closure process_ticks hands to the scheduler: the kind it passes to
\* block_setter for a tick when block_getter(pos) returned current, or None
TickTarget(rules, tick, current) ==
    IF current = None THEN None
    ELSE LET cur == CHOOSE b \in current : TRUE
         IN  IF cur.kind # tick.kind THEN None
             ELSE CheckTransition(rules, cur.kind, cur.props)

\* Whether that closure reaches its match on current_kind (the tick behaviour)
TickDispatched(tick, current) ==
    \E cur \in current : cur.kind = tick.kind

\* The closure process_random_ticks hands to the scheduler
RandomTarget(rules, current) ==
    IF current = None THEN None
    ELSE LET cur == CHOOSE b \in current : TRUE
         IN  CheckTransition(rules, cur.kind, cur.props)

\* What one handler call leaves in the observer log
Handled(tick, current, target, dispatched) ==
    [tick |-> tick, current |-> current, set |-> target, dispatched |-> dispatched]

\* The world after a handler call that computed target for pos
WorldAfter(w, pos, target) ==
    IF target = None THEN w ELSE BlockSetter(w, pos, CHOOSE k \in target : TRUE)

\* A pass that ends at the first tick whose block is missing
RECURSIVE RunTicksStopAtMissing(_, _, _, _)
RunTicksStopAtMissing(rules, run, w, log) ==
    IF run = << >> THEN [world |-> w, log |-> log]
    ELSE LET tick == Head(run)
             current == BlockGetter(w, tick.position)
             target == TickTarget(rules, tick, current)
         IN  IF current = None
             THEN [world |-> w, log |-> Append(log, Handled(tick, current, None, FALSE))]
             ELSE RunTicksStopAtMissing(rules, Tail(run),
                        WorldAfter(w, tick.position, target),
                        Append(log, Handled(tick, current, target,
                                            TickDispatched(tick, current))))

\* BlockTickExecutor::process_ticks over the pop sequence run: the world it
\* leaves and the handler calls it made
RECURSIVE RunTicks(_, _, _, _)
RunTicks(rules, run, w, log) ==
    IF run = << >> THEN [world |-> w, log |-> log]
    ELSE LET tick == Head(run)
             current == BlockGetter(w, tick.position)
             target == TickTarget(rules, tick, current)
         IN  RunTicks(rules, Tail(run), WorldAfter(w, tick.position, target),
                      Append(log, Handled(tick, current, target,
                                          TickDispatched(tick, current))))

\* A sampler that never draws more often than there are candidates
RandomPicksCapped(speed, blocks) ==
    IF blocks = << >> THEN {<< >>}
    ELSE [1..(IF speed < Len(blocks) THEN speed ELSE Len(blocks)) -> 1..Len(blocks)]

\* The indices rng.gen_range(0..blocks.len()) can return over one call of
\* BlockTickScheduler::process_random_ticks (1-based here)
RandomPicks(speed, blocks) ==
    IF blocks = << >> THEN {<< >>} ELSE [1..speed -> 1..Len(blocks)]

\* A random pass that ticks the block at (0,64,0) whichever candidate the
\* sampler picked
RECURSIVE RunRandomAtOrigin(_, _, _, _, _)
RunRandomAtOrigin(rules, blocks, picks, w, log) ==
    IF picks = << >> THEN [world |-> w, log |-> log]
    ELSE LET cand == [kind |-> blocks[Head(picks)].kind, position |-> <<0, 64, 0>>]
             current == BlockGetter(w, cand.position)
             target == RandomTarget(rules, current)
         IN  RunRandomAtOrigin(rules, blocks, Tail(picks),
                               WorldAfter(w, cand.position, target),
                               Append(log, Handled(cand, current, target, FALSE)))

\* A random pass that leaves a block alone when its kind is no longer the
\* kind the candidate recorded
RECURSIVE RunRandomKindChecked(_, _, _, _, _)
RunRandomKindChecked(rules, blocks, picks, w, log) ==
    IF picks = << >> THEN [world |-> w, log |-> log]
    ELSE LET cand == blocks[Head(picks)]
             current == BlockGetter(w, cand.position)
             target == IF \E b \in current : b.kind = cand.kind
                       THEN RandomTarget(rules, current) ELSE None
         IN  RunRandomKindChecked(rules, blocks, Tail(picks),
                                  WorldAfter(w, cand.position, target),
                                  Append(log, Handled(cand, current, target, FALSE)))

\* BlockTickExecutor::process_random_ticks over the picked indices
RECURSIVE RunRandom(_, _, _, _, _)
RunRandom(rules, blocks, picks, w, log) ==
    IF picks = << >> THEN [world |-> w, log |-> log]
    ELSE LET cand == blocks[Head(picks)]
             current == BlockGetter(w, cand.position)
             target == RandomTarget(rules, current)
         IN  RunRandom(rules, blocks, Tail(picks), WorldAfter(w, cand.position, target),
                       Append(log, Handled(cand, current, target, FALSE)))

---------------------------------------------------------------------------
(* Inputs *)

\* Properties of the blocks of the world
WorldProps == {NoProps, [n \in {"powered"} |-> "true"]}

\* What block_getter can report for a position
WorldCells(kinds) ==
    {None} \cup {Some([kind |-> k, props |-> pr]) : k \in kinds, pr \in WorldProps}

\* A table with satisfiable rules: two rules of one source, and a chain
PoweredRules ==
    << Rule("Stone", "Dirt", <<RedstonePowered>>),
       Rule("Stone", "Copper", << >>),
       Rule("Dirt", "Stone", <<RedstonePowered>>) >>

\* The rule of the random-tick scenario
ScenarioRules == << Rule("Copper", "ExposedCopper", <<RandomTick(100)>>) >>

\* The candidate lists given to process_random_ticks (the properties of a
\* candidate are never read)
Candidates == {[kind |-> "Copper", position |-> p] : p \in Positions}
CandidateLists == UNION {[1..n -> Candidates] : n \in 0..MaxCand}

NoMap == [p \in AllPositions |-> None]

\* The worlds with a cell of cells at each position of sites and no block elsewhere
WorldsOver(sites, cells) ==
    {[p \in AllPositions |-> IF p \in sites THEN f[p] ELSE None] : f \in [sites -> cells]}

Op(name) == [op |-> name]

---------------------------------------------------------------------------
(* The executor and its scheduler: one action per call *)

\* BlockTickExecutor::new and BlockTickScheduler::new
InitWith(speeds, tables, worlds) ==
    /\ pending_ticks = EmptyBag
    /\ position_to_tick = NoMap
    /\ random_tick_speed \in speeds
    /\ transitions \in tables
    /\ now = 0
    /\ world \in worlds
    /\ lastOp = Op("new")
    /\ handled = << >>
    /\ live = NoMap
    /\ expected = << >>
    /\ q_kind = "Stone" /\ q_props = NoProps /\ q_result = None
    /\ registered_chunks = {}
    /\ pending_updates = << >>
    /\ current_tick = 0
    /\ q_context = {}
    /\ spawn_rules = << >>

\* BlockTickScheduler::schedule_tick
SchedulerScheduleTick(position, kind, delay, tick_type, priority) ==
    LET tick == BlockTick(position, kind, now + delay, tick_type, priority)
    IN  /\ BagCardinality(pending_ticks) < MaxQueue
        /\ pending_ticks' = ScheduleHeap(pending_ticks, position_to_tick, tick)
        /\ position_to_tick' = ScheduleMap(position_to_tick, tick)
        /\ live' = [live EXCEPT ![position] = Some(tick)]
        /\ expected' = << >>
        /\ lastOp' = [op |-> "schedule_tick", position |-> position]
        /\ handled' = << >>
        /\ UNCHANGED <<random_tick_speed, transitions, now, world>>
        /\ UNCHANGED <<queryVars, integrationVars>>

\* A schedule_tick that passes TickType::Random on
ScheduleTickRandom(position, kind, delay, priority) ==
    SchedulerScheduleTick(position, kind, delay, "Random", priority)

\* BlockTickExecutor::schedule_tick
ScheduleTick(position, kind, delay, priority) ==
    SchedulerScheduleTick(position, kind, delay, "Scheduled", priority)

\* BlockTickExecutor::process_ticks
ProcessTicks ==
    \E run \in PopRuns(pending_ticks, now) :
        LET out == RunTicks(transitions, run, world, << >>)
        IN  /\ pending_ticks' = pending_ticks (-) RunBag(run)
            /\ position_to_tick' = MapAfterRun(position_to_tick, run)
            /\ world' = out.world
            /\ handled' = out.log
            /\ expected' = [i \in 1..Len(run) |->
                    IF \E j \in 1..(i - 1) : run[j].position = run[i].position
                    THEN None ELSE live[run[i].position]]
            /\ live' = MapAfterRun(live, run)
            /\ lastOp' = Op("process_ticks")
            /\ UNCHANGED <<random_tick_speed, transitions, now>>
            /\ UNCHANGED <<queryVars, integrationVars>>

\* BlockTickExecutor::process_random_ticks
ProcessRandomTicks(blocks) ==
    \E picks \in RandomPicks(random_tick_speed, blocks) :
        LET out == RunRandom(transitions, blocks, picks, world, << >>)
        IN  /\ world' = out.world
            /\ handled' = out.log
            /\ expected' = << >>
            /\ lastOp' = [op |-> "process_random_ticks", blocks |-> blocks]
            /\ UNCHANGED <<random_tick_speed, transitions, now>>
            /\ UNCHANGED schedVars
            /\ UNCHANGED <<queryVars, integrationVars>>


\* A clear that empties the heap and leaves the position map
ClearHeapOnly ==
    /\ pending_ticks' = EmptyBag
    /\ position_to_tick' = position_to_tick
    /\ live' = NoMap
    /\ expected' = << >>
    /\ lastOp' = [op |-> "clear", dropped |-> BagCardinality(pending_ticks)]
    /\ handled' = << >>
    /\ UNCHANGED <<random_tick_speed, transitions, now, world>>
    /\ UNCHANGED <<queryVars, integrationVars>>

\* BlockTickScheduler::clear
Clear ==
    /\ pending_ticks' = EmptyBag
    /\ position_to_tick' = NoMap
    /\ live' = NoMap
    /\ expected' = << >>
    /\ lastOp' = [op |-> "clear", dropped |-> BagCardinality(pending_ticks)]
    /\ handled' = << >>
    /\ UNCHANGED <<random_tick_speed, transitions, now, world>>
    /\ UNCHANGED <<queryVars, integrationVars>>

\* BlockTickScheduler::set_random_tick_speed
SetRandomTickSpeed(speed) ==
    /\ random_tick_speed' = speed
    /\ lastOp' = Op("set_random_tick_speed")
    /\ handled' = << >>
    /\ expected' = << >>
    /\ UNCHANGED <<transitions, now, world>>
    /\ UNCHANGED schedVars
    /\ UNCHANGED <<queryVars, integrationVars>>

\* Instant::now() moves on between calls
AdvanceTime ==
    /\ now < MaxTime
    /\ now' = now + 1
    /\ lastOp' = Op("env")
    /\ handled' = << >>
    /\ expected' = << >>
    /\ UNCHANGED <<random_tick_speed, transitions, world>>
    /\ UNCHANGED schedVars
    /\ UNCHANGED <<queryVars, integrationVars>>

\* The world is changed from outside between calls
WorldChange(pos, cell) ==
    /\ world[pos] # cell
    /\ world' = [world EXCEPT ![pos] = cell]
    /\ lastOp' = Op("env")
    /\ handled' = << >>
    /\ expected' = << >>
    /\ UNCHANGED <<random_tick_speed, transitions, now>>
    /\ UNCHANGED schedVars
    /\ UNCHANGED <<queryVars, integrationVars>>

---------------------------------------------------------------------------
(* BlockWorldIntegration: pending block updates and their propagation      *)

\* BlockKind::receives_random_ticks
RandomTickKinds ==
    {"Copper", "ExposedCopper", "WeatheredCopper",
     "CutCopper", "ExposedCutCopper", "WeatheredCutCopper",
     "CutCopperStairs", "ExposedCutCopperStairs", "WeatheredCutCopperStairs",
     "CutCopperSlab", "ExposedCutCopperSlab", "WeatheredCutCopperSlab",
     "BuddingAmethyst", "PointedDripstone"}

ReceivesRandomTicks(kind) == kind \in RandomTickKinds

\* chunk.height() of the chunks of the modelled world; <<0, 65, 0>> is in
\* its top layer
Height == 66

\* ValidBlockPosition::new(x, y, z) is Ok: the position lies in the world
ValidPosition(pos) == pos[2] >= 0 /\ pos[2] < Height

\* ValidBlockPosition::new(x, y, z).ok()
NewPosition(x, y, z) == IF ValidPosition(<<x, y, z>>) THEN Some(<<x, y, z>>) ELSE None

\* A neighbour list without the positions above and below
NeighborsHorizontal(pos) ==
    << NewPosition(pos[1] + 1, pos[2], pos[3]),
       NewPosition(pos[1] - 1, pos[2], pos[3]),
       NewPosition(pos[1], pos[2], pos[3] + 1),
       NewPosition(pos[1], pos[2], pos[3] - 1) >>

\* propagate_block_update: let neighbors = [...]
Neighbors(pos) ==
    << NewPosition(pos[1] + 1, pos[2], pos[3]),
       NewPosition(pos[1] - 1, pos[2], pos[3]),
       NewPosition(pos[1], pos[2] + 1, pos[3]),
       NewPosition(pos[1], pos[2] - 1, pos[3]),
       NewPosition(pos[1], pos[2], pos[3] + 1),
       NewPosition(pos[1], pos[2], pos[3] - 1) >>

\* struct BlockUpdate
BlockUpdate(position, kind, delay, priority) ==
    [position |-> position, kind |-> kind, delay |-> delay, priority |-> priority]

\* schedule_block_update: the list after the push
PushUpdate(updates, position, kind, delay, priority) ==
    Append(updates, BlockUpdate(position, kind, delay, priority))

\* A propagation that leaves on the list the neighbour updates alone
RECURSIVE PropagateFromFresh(_, _, _)
PropagateFromFresh(neighbors, w, updates) ==
    IF neighbors = << >> THEN << >>
    ELSE LET found == IF Head(neighbors) = None THEN None
                      ELSE BlockGetter(w, CHOOSE n \in Head(neighbors) : TRUE)
         IN  (IF found = None THEN << >>
              ELSE <<BlockUpdate(CHOOSE n \in Head(neighbors) : TRUE,
                                 (CHOOSE b \in found : TRUE).kind, 1, 0)>>)
                \o PropagateFromFresh(Tail(neighbors), w, updates)

\* The loop of propagate_block_update over neighbors.iter().flatten(),
\* reading the world w: the pending list it leaves
RECURSIVE PropagateFrom(_, _, _)
PropagateFrom(neighbors, w, updates) ==
    IF neighbors = << >> THEN updates
    ELSE LET found == IF Head(neighbors) = None THEN None
                      ELSE BlockGetter(w, CHOOSE n \in Head(neighbors) : TRUE)
         IN  PropagateFrom(Tail(neighbors), w,
                IF found = None THEN updates
                ELSE PushUpdate(updates, CHOOSE n \in Head(neighbors) : TRUE,
                                (CHOOSE b \in found : TRUE).kind, 1, 0))

\* An on_block_changed that schedules a tick for every new block
ChangeTicksAlways(pos, new_block, t) == {BlockTick(pos, new_block, t, "Scheduled", 0)}

\* on_block_changed: the tick it schedules at clock value t, if any
ChangeTicks(pos, new_block, t) ==
    IF ReceivesRandomTicks(new_block)
    THEN {BlockTick(pos, new_block, t, "Scheduled", 0)}
    ELSE {}

\* BlockWorldIntegration::new: random_tick_interval, which nothing changes
random_tick_interval == 1

\* The x and z extent of a chunk in process_random_ticks
ChunkWidth == 16

\* The positions process_random_ticks visits in the chunk at <<x, z>>, as far
\* as block_getter can report a block there
ChunkBlocks(chunk) ==
    {p \in AllPositions :
        /\ p[2] \in 0..(Height - 1)
        /\ p[3] \in (chunk[2] * ChunkWidth)..(chunk[2] * ChunkWidth + ChunkWidth - 1)
        /\ p[1] \in (chunk[1] * ChunkWidth)..(chunk[1] * ChunkWidth + ChunkWidth - 1)}

\* The order of the nested loops over y, z and x
ScanBefore(p, q) ==
    \/ p[2] < q[2]
    \/ p[2] = q[2] /\ p[3] < q[3]
    \/ p[2] = q[2] /\ p[3] = q[3] /\ p[1] <= q[1]

\* A collection that takes every block of the chunk
RECURSIVE TickingBlocksAnyKind(_, _)
TickingBlocksAnyKind(positions, w) ==
    IF positions = {} THEN << >>
    ELSE LET p == CHOOSE p \in positions : \A q \in positions : ScanBefore(p, q)
             found == BlockGetter(w, p)
         IN  (IF found # None
              THEN <<[kind |-> (CHOOSE b \in found : TRUE).kind, position |-> p]>>
              ELSE << >>) \o TickingBlocksAnyKind(positions \ {p}, w)

\* process_random_ticks: ticking_blocks collected over positions (the
\* properties of a candidate are never read)
RECURSIVE TickingBlocks(_, _)
TickingBlocks(positions, w) ==
    IF positions = {} THEN << >>
    ELSE LET p == CHOOSE p \in positions : \A q \in positions : ScanBefore(p, q)
             found == BlockGetter(w, p)
         IN  (IF found # None /\ ReceivesRandomTicks((CHOOSE b \in found : TRUE).kind)
              THEN <<[kind |-> (CHOOSE b \in found : TRUE).kind, position |-> p]>>
              ELSE << >>) \o TickingBlocks(positions \ {p}, w)

\* The orders in which the loop over &self.registered_chunks can visit the keys
IterationOrders(keys) ==
    {f \in [1..Cardinality(keys) -> keys] :
        \A i, j \in 1..Cardinality(keys) : f[i] = f[j] => i = j}

\* A random pass that samples a registered chunk the region table lacks
SampledChunkWithoutTable(chunk, registered, chunks) == chunk \in registered

\* process_random_ticks: whether the loop samples chunk
SampledChunk(chunk, registered, chunks) == chunk \in registered /\ chunk \in chunks

\* BlockWorldIntegration::process_random_ticks visiting the chunks of order:
\* the outcomes it can have, each with the world it leaves, the handler calls
\* and the calls of the sampler.  The call of line 119 carries the arguments
\* of BlockTickExecutor::process_random_ticks, which is what runs
RECURSIVE RandomPass(_, _, _, _, _, _, _, _)
RandomPass(order, registered, chunks, speed, rules, w, log, sampled) ==
    IF order = << >> THEN {[world |-> w, log |-> log, sampled |-> sampled]}
    ELSE IF ~SampledChunk(Head(order), registered, chunks)
    THEN RandomPass(Tail(order), registered, chunks, speed, rules, w, log, sampled)
    ELSE LET blocks == TickingBlocks(ChunkBlocks(Head(order)), w)
         IN  UNION { LET out == RunRandom(rules, blocks, picks, w, log)
                     IN  RandomPass(Tail(order), registered, chunks, speed, rules,
                                    out.world, out.log,
                                    Append(sampled, [chunk |-> Head(order),
                                                     blocks |-> blocks]))
                     : picks \in RandomPicks(speed, blocks) }

\* A drain that waits one tick longer
ElapsedStrict(update, tick) == update.delay < tick

\* process_pending_updates: u64::from(update.delay) <= current_tick
Elapsed(update, tick) == update.delay <= tick

\* A promotion that asks for any block at the position
StillValidAnyKind(update, current) == current # None

\* process_pending_updates: block_getter still reports the recorded kind
StillValid(update, current) == \E b \in current : b.kind = update.kind

\* A drain that ends at the first update that is not yet due
PendingFromStopAtWaiting(updates, i, tick, w, t, st) ==
    LET Due(u) == u.delay <= tick
        n == IF \E j \in i..Len(updates) : ~Due(updates[j])
             THEN (CHOOSE j \in i..Len(updates) :
                      /\ ~Due(updates[j])
                      /\ \A k \in i..(j - 1) : Due(updates[k])) - 1
             ELSE Len(updates)
    IN  [updates |-> SubSeq(updates, 1, i - 1) \o SubSeq(updates, n + 1, Len(updates)),
         heap |-> st.heap, map |-> st.map, live |-> st.live,
         drained |-> st.drained]

\* The while loop of process_pending_updates from index i on, reading the
\* world w at clock value t: the list, heap and maps it leaves, and what it
\* did with each update it removed
RECURSIVE PendingFrom(_, _, _, _, _, _)
PendingFrom(updates, i, tick, w, t, st) ==
    IF i > Len(updates)
    THEN [updates |-> updates, heap |-> st.heap, map |-> st.map, live |-> st.live,
          drained |-> st.drained]
    ELSE IF ~Elapsed(updates[i], tick)
    THEN PendingFrom(updates, i + 1, tick, w, t, st)
    ELSE LET update == updates[i]
             rest == SubSeq(updates, 1, i - 1) \o SubSeq(updates, i + 1, Len(updates))
             current == BlockGetter(w, update.position)
             promote == StillValid(update, current)
             new == BlockTick(update.position, update.kind, t + 0, "Scheduled",
                              update.priority)
         IN  PendingFrom(rest, i, tick, w, t,
                IF promote
                THEN [heap |-> ScheduleHeap(st.heap, st.map, new),
                      map |-> ScheduleMap(st.map, new),
                      live |-> [st.live EXCEPT ![update.position] = Some(new)],
                      drained |-> Append(st.drained,
                            [update |-> update, current |-> current, promoted |-> TRUE])]
                ELSE [st EXCEPT !.drained = Append(st.drained,
                            [update |-> update, current |-> current, promoted |-> FALSE])])

\* A registration that replaces the registered chunks by the new one
RegisterChunkExclusive(pos) ==
    /\ registered_chunks' = {pos}
    /\ lastOp' = [op |-> "register_chunk", chunk |-> pos,
                  was |-> pos \in registered_chunks]
    /\ handled' = << >>
    /\ expected' = << >>
    /\ UNCHANGED <<random_tick_speed, transitions, now, world>>
    /\ UNCHANGED <<schedVars, queryVars, pending_updates, current_tick, q_context, spawn_rules>>

\* BlockWorldIntegration::register_chunk
RegisterChunk(pos) ==
    /\ registered_chunks' = registered_chunks \cup {pos}
    /\ lastOp' = [op |-> "register_chunk", chunk |-> pos,
                  was |-> pos \in registered_chunks]
    /\ handled' = << >>
    /\ expected' = << >>
    /\ UNCHANGED <<random_tick_speed, transitions, now, world>>
    /\ UNCHANGED <<schedVars, queryVars, pending_updates, current_tick, q_context, spawn_rules>>

\* BlockWorldIntegration::unregister_chunk
UnregisterChunk(pos) ==
    /\ registered_chunks' = registered_chunks \ {pos}
    /\ lastOp' = [op |-> "unregister_chunk", chunk |-> pos,
                  was |-> pos \in registered_chunks]
    /\ handled' = << >>
    /\ expected' = << >>
    /\ UNCHANGED <<random_tick_speed, transitions, now, world>>
    /\ UNCHANGED <<schedVars, queryVars, pending_updates, current_tick, q_context, spawn_rules>>

\* An update that leaves the scheduled ticks to a later call
ScheduledPassSkipped(heap, t) == {<< >>}

\* update: self.tick_executor.process_ticks(..), the pop sequences it can take
ScheduledPass(heap, t) == PopRuns(heap, t)

\* What the log of the position map expects of a pop sequence
ExpectedOf(run, pending) ==
    [i \in 1..Len(run) |->
        IF \E j \in 1..(i - 1) : run[j].position = run[i].position
        THEN None ELSE pending[run[i].position]]

\* An update that promotes the pending updates before it processes the
\* scheduled ticks
UpdateOutcomesPromoteFirst(chunks) ==
    LET tick == current_tick + 1
        out == PendingFrom(pending_updates, 1, tick, world, now,
                    [heap |-> pending_ticks, map |-> position_to_tick,
                     live |-> live, drained |-> << >>])
    IN  UNION { UNION { {[world |-> pass.world,
                          heap |-> out.heap (-) RunBag(run),
                          map |-> MapAfterRun(out.map, run),
                          live |-> MapAfterRun(out.live, run),
                          updates |-> out.updates,
                          handled |-> RunTicks(transitions, run, world, << >>).log,
                          expected |-> ExpectedOf(run, out.live),
                          random |-> pass.log,
                          sampled |-> pass.sampled,
                          drained |-> out.drained]
                         : pass \in RandomPass(order, registered_chunks, chunks,
                                        random_tick_speed, transitions,
                                        RunTicks(transitions, run, world, << >>).world,
                                        << >>, << >>)}
                      : order \in IterationOrders(registered_chunks) }
                : run \in ScheduledPass(out.heap, now) }

\* An update that samples the random ticks before it processes the
\* scheduled ticks
UpdateOutcomesRandomFirst(chunks) ==
    LET tick == current_tick + 1
    IN  UNION { UNION { UNION { LET ticked == RunTicks(transitions, run, pass.world, << >>)
                                    out == PendingFrom(pending_updates, 1, tick,
                                                ticked.world, now,
                                                [heap |-> pending_ticks (-) RunBag(run),
                                                 map |-> MapAfterRun(position_to_tick, run),
                                                 live |-> MapAfterRun(live, run),
                                                 drained |-> << >>])
                                IN  {[world |-> ticked.world,
                                      heap |-> out.heap,
                                      map |-> out.map,
                                      live |-> out.live,
                                      updates |-> out.updates,
                                      handled |-> ticked.log,
                                      expected |-> ExpectedOf(run, live),
                                      random |-> pass.log,
                                      sampled |-> pass.sampled,
                                      drained |-> out.drained]}
                                : pass \in RandomPass(order, registered_chunks, chunks,
                                                random_tick_speed, transitions,
                                                world, << >>, << >>) }
                      : order \in IterationOrders(registered_chunks) }
                : run \in ScheduledPass(pending_ticks, now) }

\* BlockWorldIntegration::update with the region table holding the chunks of
\* chunks: the outcomes the call can have, each with the state it leaves
\* and the handler calls, sampler calls and removed updates of its phases
UpdateOutcomes(chunks) ==
    LET tick == current_tick + 1
    IN  UNION { UNION { LET ticked == RunTicks(transitions, run, world, << >>)
                            passes ==
                                IF tick % random_tick_interval = 0
                                THEN RandomPass(order, registered_chunks, chunks,
                                                random_tick_speed, transitions,
                                                ticked.world, << >>, << >>)
                                ELSE {[world |-> ticked.world, log |-> << >>,
                                       sampled |-> << >>]}
                        IN  { LET out == PendingFrom(pending_updates, 1, tick,
                                            pass.world, now,
                                            [heap |-> pending_ticks (-) RunBag(run),
                                             map |-> MapAfterRun(position_to_tick, run),
                                             live |-> MapAfterRun(live, run),
                                             drained |-> << >>])
                              IN  [world |-> pass.world,
                                   heap |-> out.heap,
                                   map |-> out.map,
                                   live |-> out.live,
                                   updates |-> out.updates,
                                   handled |-> ticked.log,
                                   expected |-> ExpectedOf(run, live),
                                   random |-> pass.log,
                                   sampled |-> pass.sampled,
                                   drained |-> out.drained]
                              : pass \in passes }
                      : order \in IterationOrders(registered_chunks) }
                : run \in ScheduledPass(pending_ticks, now) }

\* BlockWorldIntegration::update
Update(chunks) ==
    /\ current_tick < MaxTick
    /\ current_tick' = current_tick + 1
    /\ \E out \in UpdateOutcomes(chunks) :
          /\ world' = out.world
          /\ pending_ticks' = out.heap
          /\ position_to_tick' = out.map
          /\ live' = out.live
          /\ pending_updates' = out.updates
          /\ handled' = out.handled
          /\ expected' = out.expected
          /\ lastOp' = [op |-> "update", chunks |-> chunks, random |-> out.random,
                        sampled |-> out.sampled, drained |-> out.drained]
    /\ UNCHANGED <<random_tick_speed, transitions, now, registered_chunks, q_context, spawn_rules>>
    /\ UNCHANGED queryVars

\* BlockWorldIntegration::schedule_block_update
ScheduleBlockUpdate(position, kind, delay, priority) ==
    /\ Len(pending_updates) < MaxPending
    /\ pending_updates' = PushUpdate(pending_updates, position, kind, delay, priority)
    /\ lastOp' = [op |-> "schedule_block_update", position |-> position]
    /\ handled' = << >>
    /\ expected' = << >>
    /\ UNCHANGED <<random_tick_speed, transitions, now, world>>
    /\ UNCHANGED <<schedVars, queryVars, registered_chunks, current_tick, q_context, spawn_rules>>

\* BlockWorldIntegration::propagate_block_update
PropagateBlockUpdate(position) ==
    /\ Len(pending_updates) < MaxPending
    /\ pending_updates' = PropagateFrom(Neighbors(position), world, pending_updates)
    /\ lastOp' = [op |-> "propagate_block_update", position |-> position]
    /\ handled' = << >>
    /\ expected' = << >>
    /\ UNCHANGED <<random_tick_speed, transitions, now, world>>
    /\ UNCHANGED <<schedVars, queryVars, registered_chunks, current_tick, q_context, spawn_rules>>

\* BlockWorldIntegration::on_block_changed
OnBlockChanged(position, new_block) ==
    LET ticks == ChangeTicks(position, new_block, now)
    IN  /\ Len(pending_updates) < MaxPending
        /\ BagCardinality(pending_ticks) < MaxQueue
        /\ pending_updates' = PropagateFrom(Neighbors(position), world, pending_updates)
        /\ IF ticks = {}
           THEN UNCHANGED schedVars
           ELSE LET tick == CHOOSE t \in ticks : TRUE
                IN  /\ pending_ticks' = ScheduleHeap(pending_ticks, position_to_tick, tick)
                    /\ position_to_tick' = ScheduleMap(position_to_tick, tick)
                    /\ live' = [live EXCEPT ![position] = Some(tick)]
        /\ lastOp' = [op |-> "on_block_changed", position |-> position, kind |-> new_block]
        /\ handled' = << >>
        /\ expected' = << >>
        /\ UNCHANGED <<random_tick_speed, transitions, now, world>>
        /\ UNCHANGED <<queryVars, registered_chunks, current_tick, q_context, spawn_rules>>

---------------------------------------------------------------------------
(* Spec: the tick queue under schedule_tick, process_ticks and clear, with  *)
(* the clock moving; the world is fixed (no handler touches the queue)     *)

QueueKinds == {"Stone", "Dirt"}

QueueWorld ==
    [p \in AllPositions |->
        IF p \in Positions THEN Some([kind |-> "Stone", props |-> NoProps]) ELSE None]

Init == InitWith({MaxSpeed}, {CopperRules}, {QueueWorld})

Next ==
    \/ \E p \in Positions, k \in QueueKinds, d \in Delays, pr \in Priorities :
            ScheduleTick(p, k, d, pr)
    \/ ProcessTicks
    \/ Clear
    \/ AdvanceTime

Spec == Init /\ [][Next]_vars

---------------------------------------------------------------------------
(* SpecExec: scheduled ticks against a world that changes between calls    *)

ExecKinds == {"Stone", "Dirt", "Copper"}

InitExec ==
    InitWith({MaxSpeed}, {PoweredRules, CopperRules},
             WorldsOver(Positions, WorldCells(ExecKinds)))

NextExec ==
    \/ \E p \in Positions, k \in QueueKinds : ScheduleTick(p, k, 0, 0)
    \/ ProcessTicks
    \/ \E p \in Positions, c \in WorldCells(ExecKinds) : WorldChange(p, c)

SpecExec == InitExec /\ [][NextExec]_vars

---------------------------------------------------------------------------
(* SpecRandom: random ticks over caller-supplied candidate lists           *)

RandomKinds == {"Stone", "Copper"}

InitRandom ==
    InitWith(0..MaxSpeed, {ScenarioRules, PoweredRules, CopperRules},
             WorldsOver(Positions, WorldCells(RandomKinds)))

NextRandom ==
    \/ \E blocks \in CandidateLists : ProcessRandomTicks(blocks)
    \/ \E speed \in 0..MaxSpeed : SetRandomTickSpeed(speed)
    \/ \E p \in Positions, c \in WorldCells(RandomKinds) : WorldChange(p, c)

SpecRandom == InitRandom /\ [][NextRandom]_vars

---------------------------------------------------------------------------
(* SpecQuery: check_transition as a function of the rule table, the kind   *)
(* and the properties                                                      *)

\* The condition lists of the rules drawn
QueryConditions ==
    { << >>, <<RedstonePowered>>, <<Custom("is_lit")>>,
      <<RedstonePowered, Custom("is_lit")>>, <<Custom("always"), RandomTick(100)>>,
      <<ExposedToSky>>, <<InBiome("plains"), Connected("Stone")>> }

QueryRules ==
    {Rule(src, tgt, conds) : src \in {"Stone", "Copper"}, tgt \in {"Dirt", "ExposedCopper"},
                             conds \in QueryConditions}

\* BlockTransitionManager::new followed by up to MaxRules register_transition calls
QueryTables == UNION {[1..n -> QueryRules] : n \in 0..MaxRules}

InitQuery ==
    InitWith({MaxSpeed}, QueryTables, {NoMap})

\* BlockTransitionManager::check_transition called with (kind, properties)
Query(kind, properties) ==
    /\ q_kind' = kind
    /\ q_props' = properties
    /\ q_result' = CheckTransition(transitions, kind, properties)
    /\ lastOp' = Op("check_transition")
    /\ UNCHANGED <<random_tick_speed, transitions, now, world, handled, expected>>
    /\ UNCHANGED <<schedVars, integrationVars>>

NextQuery ==
    \E k \in ExecKinds, pr \in PropMaps : Query(k, pr)

SpecQuery == InitQuery /\ [][NextQuery]_vars

---------------------------------------------------------------------------
(* SpecContext: check_transition for a block of which the world (sky        *)
(* exposure, neighbouring blocks, biome) makes some conditions true        *)

\* The conditions that need world context
ContextConditions == {ExposedToSky, Connected("Stone"), InBiome("plains")}

ContextRules ==
    {Rule("Stone", tgt, conds) :
        tgt \in {"Dirt", "Copper"},
        conds \in {<<c>> : c \in ContextConditions} \cup {<<RedstonePowered, ExposedToSky>>}}

ContextTables == UNION {[1..n -> ContextRules] : n \in 0..MaxRules}

InitContext ==
    InitWith({MaxSpeed}, ContextTables, {NoMap})

\* check_transition(kind, properties) for a block of which the conditions of
\* context are true: the function takes no world context and reads none
QueryInContext(kind, properties, context) ==
    /\ q_kind' = kind
    /\ q_props' = properties
    /\ q_context' = context
    /\ q_result' = CheckTransition(transitions, kind, properties)
    /\ lastOp' = Op("check_transition")
    /\ UNCHANGED <<random_tick_speed, transitions, now, world, handled, expected>>
    /\ UNCHANGED <<schedVars, registered_chunks, pending_updates, current_tick, spawn_rules>>

NextContext ==
    \E k \in {"Stone", "Dirt"}, pr \in WorldProps, ctx \in SUBSET ContextConditions :
        QueryInContext(k, pr, ctx)

SpecContext == InitContext /\ [][NextContext]_vars

---------------------------------------------------------------------------
(* SpecPropagate: change notifications at a block with six neighbours and  *)
(* at a block of the top layer, over the worlds that differ in which       *)
(* neighbours hold a block                                                 *)

Center == <<0, 64, 0>>
Top == <<0, 65, 0>>

PropagateCells ==
    {None, Some([kind |-> "Stone", props |-> NoProps]),
     Some([kind |-> "Copper", props |-> NoProps])}

InitPropagate ==
    InitWith({MaxSpeed}, {CopperRules}, WorldsOver(AllPositions, PropagateCells))

NextPropagate ==
    \/ \E p \in {Center, Top} : PropagateBlockUpdate(p)
    \/ \E p \in {Center, Top}, k \in {"Stone", "Copper"} : OnBlockChanged(p, k)

SpecPropagate == InitPropagate /\ [][NextPropagate]_vars

---------------------------------------------------------------------------
(* SpecWorld: the game ticks of a world of three blocks in two chunks,     *)
(* with chunks registered and unregistered, blocks changed and updates     *)
(* enqueued between the ticks                                              *)

East == <<1, 64, 0>>
West == <<-1, 64, 0>>

ModelChunks == {<<0, 0>>, <<-1, 0>>}

\* Copper weathers on any tick
WeatheringRules == << Rule("Copper", "ExposedCopper", << >>) >>

WorldBlocks == {None, Some([kind |-> "Copper", props |-> NoProps])}

\* The region tables given to update
RegionTables == {{<<0, 0>>}, ModelChunks}

\* The delay and priority of the updates enqueued from outside
UpdateInputs == {<<3, 0>>, <<3, 1>>}

InitWorld ==
    InitWith({1}, {WeatheringRules},
             WorldsOver({Center, East, West}, WorldBlocks \ {None}))

NextWorld ==
    \/ \E c \in ModelChunks : RegisterChunk(c)
    \/ \E c \in ModelChunks : UnregisterChunk(c)
    \/ \E chunks \in RegionTables : Update(chunks)
    \/ OnBlockChanged(Center, "Copper")
    \/ \E u \in UpdateInputs : ScheduleBlockUpdate(East, "Copper", u[1], u[2])
    \/ \E c \in WorldBlocks : WorldChange(East, c)

SpecWorld == InitWorld /\ [][NextWorld]_vars

---------------------------------------------------------------------------
(* SpecSkip: scheduled ticks, random ticks, pending updates and change     *)
(* notifications in a world whose blocks are removed between the calls     *)

SkipCandidates == <<[kind |-> "Copper", position |-> East],
                    [kind |-> "Copper", position |-> Center]>>

InitSkip ==
    InitWith({2}, {WeatheringRules},
             WorldsOver({Center, East, West}, WorldBlocks \ {None}))

NextSkip ==
    \/ ScheduleTick(East, "Copper", 0, 1)
    \/ ScheduleTick(Center, "Copper", 0, 0)
    \/ ProcessRandomTicks(SkipCandidates)
    \/ PropagateBlockUpdate(Center)
    \/ OnBlockChanged(Center, "Copper")
    \/ Update({})
    \/ \E c \in WorldBlocks : WorldChange(East, c)

SpecSkip == InitSkip /\ [][NextSkip]_vars

---------------------------------------------------------------------------
(* SpecDefault: the engine of initialize_block_tick_executor, whose table  *)
(* holds the copper rules alone, over worlds of copper blocks; one random  *)
(* tick is drawn per call                                                  *)

\* The kinds check_transition is asked about
DefaultKinds ==
    {"Stone", "Copper", "ExposedCopper", "WeatheredCopper", "OxidizedCopper",
     "CutCopper", "ExposedCutCopper"}

\* The blocks of the world: source kinds of the copper rules
DefaultCells ==
    {Some([kind |-> k, props |-> NoProps]) : k \in {"Copper", "WeatheredCopper"}}

DefaultCandidates == <<[kind |-> "Copper", position |-> Center],
                       [kind |-> "Copper", position |-> East]>>

InitDefault ==
    InitWith({1}, {CopperRules}, WorldsOver({Center, East}, DefaultCells))

NextDefault ==
    \/ \E k \in {"Copper", "WeatheredCopper"} : ScheduleTick(East, k, 0, 0)
    \/ ProcessRandomTicks(DefaultCandidates)
    \/ RegisterChunk(<<0, 0>>)
    \/ Update({<<0, 0>>})
    \/ \E k \in DefaultKinds, pr \in WorldProps : Query(k, pr)

SpecDefault == InitDefault /\ [][NextDefault]_vars

---------------------------------------------------------------------------
(* EntitySpawnManager (entities/spawning.rs): weighted choice of a spawn    *)
(* rule.  Weights are u32; they are counted here in units of 2^29, so that  *)
(* 2^32 is WeightModulus units and a sum of weights can overflow            *)

WeightModulus == 8

\* struct SpawnRule (difficulty, cave_spawn and requires_sky_access are never
\* read); required_blocks is None or Some of the name of a block check
SpawnRule(entity_kind, biomes, min_light, max_light, group_sizes, required_blocks, weight, aquatic) ==
    [entity_kind |-> entity_kind, biomes |-> biomes, min_light |-> min_light,
     max_light |-> max_light, min_group_size |-> group_sizes[1],
     max_group_size |-> group_sizes[2], required_blocks |-> required_blocks,
     weight |-> weight, aquatic |-> aquatic]

\* The fn(BlockPosition) -> bool pointers a rule is built with
BlockCheck(name, pos) == name = "any_block"

\* self.rules.iter().filter(|rule| rule.biomes.contains(&biome)): the indices
\* of the applicable rules, in registration order
ApplicableRules(rs, biome) ==
    LET Applies(i) == biome \in rs[i].biomes
    IN  SelectSeq([i \in 1..Len(rs) |-> i], Applies)

\* applicable_rules.iter().map(|rule| rule.weight).sum(), before it is cut to
\* 32 bits
RECURSIVE WeightSum(_, _)
WeightSum(rs, applicable) ==
    IF applicable = << >> THEN 0
    ELSE rs[Head(applicable)].weight + WeightSum(rs, Tail(applicable))

\* A draw that can return the total itself
SelectionsInclusive(total_weight) == 0..total_weight

\* rng.gen_range(0, total_weight)
Selections(total_weight) == 0..(total_weight - 1)

\* applicable_rules.iter().find(..) with its running selection: the index of
\* the rule found, or None
RECURSIVE FindRule(_, _, _)
FindRule(rs, applicable, selection) ==
    IF applicable = << >> THEN None
    ELSE IF selection < rs[Head(applicable)].weight THEN Some(Head(applicable))
    ELSE FindRule(rs, Tail(applicable), selection - rs[Head(applicable)].weight)

\* fn find_spawn_y
FindSpawnY(x, z, aquatic) == IF aquatic THEN Some(60) ELSE Some(70)

\* The arithmetic of the build: overflow checks on (a panic) or off (wrapping)
Builds == {"checked", "wrapping"}

\* What one try_spawn_in_chunk call did
SpawnAttempt(biome, applicable, total, selection, selected, spawned, panic) ==
    [op |-> "try_spawn_in_chunk", biome |-> biome, applicable |-> applicable,
     total_weight |-> total, selection |-> selection, selected_rule |-> selected,
     spawned |-> spawned, panic |-> panic]

\* try_spawn_in_chunk from the draw of selection on, where light_getter
\* reports light at every position
AfterSelection(rs, biome, chunk_pos, light, applicable, total, selection) ==
    LET found == FindRule(rs, applicable, selection)
        Done(selected, spawned, panic) ==
            SpawnAttempt(biome, applicable, Some(total), Some(selection),
                         selected, spawned, panic)
    IN  IF found = None THEN {Done(None, None, Some("unwrap"))}
        ELSE LET rule == rs[CHOOSE i \in found : TRUE]
                 ys == FindSpawnY(0, 0, rule.aquatic)
             IN  IF ys = None \/ light < rule.min_light \/ light > rule.max_light
                 THEN {Done(found, None, None)}
                 ELSE UNION {
                        LET pos == <<chunk_pos[1] * ChunkWidth + dx, CHOOSE y \in ys : TRUE,
                                     chunk_pos[2] * ChunkWidth + dz>>
                        IN  IF \E check \in rule.required_blocks : ~BlockCheck(check, pos)
                            THEN {Done(found, None, None)}
                            ELSE {Done(found, Some([kind |-> rule.entity_kind, pos |-> pos,
                                                    group_size |-> g]), None)
                                    : g \in rule.min_group_size..rule.max_group_size}
                        : dx \in {0, ChunkWidth - 1}, dz \in {0, ChunkWidth - 1} }

\* try_spawn_in_chunk: the calls it can make, over the builds and the draws
TrySpawnOutcomes(rs, biome, chunk_pos, light) ==
    LET applicable == ApplicableRules(rs, biome)
        sum == WeightSum(rs, applicable)
    IN  IF applicable = << >>
        THEN {SpawnAttempt(biome, applicable, None, None, None, None, None)}
        ELSE UNION {
                IF sum >= WeightModulus /\ build = "checked"
                THEN {SpawnAttempt(biome, applicable, None, None, None, None,
                                   Some("overflow"))}
                ELSE LET total_weight == sum % WeightModulus
                     IN  IF total_weight = 0
                         THEN {SpawnAttempt(biome, applicable, Some(0), None, None, None, None)}
                         ELSE UNION {AfterSelection(rs, biome, chunk_pos, light, applicable,
                                                    total_weight, selection)
                                        : selection \in Selections(total_weight)}
                : build \in Builds }

\* EntitySpawnManager::register_rule
RegisterRule(rule) ==
    /\ Len(spawn_rules) < MaxSpawnRules
    /\ spawn_rules' = Append(spawn_rules, rule)
    /\ lastOp' = Op("register_rule")
    /\ UNCHANGED <<random_tick_speed, transitions, now, world, handled, expected>>
    /\ UNCHANGED <<schedVars, queryVars>>
    /\ UNCHANGED <<registered_chunks, pending_updates, current_tick, q_context>>

\* EntitySpawnManager::try_spawn_in_chunk
TrySpawnInChunk(biome, chunk_pos, light) ==
    /\ lastOp' \in TrySpawnOutcomes(spawn_rules, biome, chunk_pos, light)
    /\ UNCHANGED <<random_tick_speed, transitions, now, world, handled, expected>>
    /\ UNCHANGED <<schedVars, queryVars, integrationVars>>

---------------------------------------------------------------------------
(* SpecSpawn: spawn attempts over the rule tables built by register_rule   *)

SpawnBiomes == {"LushCaves", "Plains"}

\* The weights of the rules drawn: none, and two that overflow together
SpawnWeights == {0, 3, 5}

\* The rules given to register_rule: an aquatic rule with a block check that
\* accepts, a rule for bright places with a block check that rejects, and a
\* rule for complete darkness without a block check
SpawnRuleInputs ==
    UNION { { SpawnRule("Axolotl", b, 0, 15, <<1, 2>>, Some("any_block"), w, TRUE),
              SpawnRule("Goat", b, 7, 15, <<2, 2>>, Some("no_block"), w, FALSE),
              SpawnRule("Zombie", b, 0, 0, <<2, 2>>, None, w, FALSE) }
            : b \in {{"LushCaves"}, SpawnBiomes}, w \in SpawnWeights }

InitSpawn == InitWith({1}, {CopperRules}, {NoMap})

NextSpawn ==
    \/ \E rule \in SpawnRuleInputs : RegisterRule(rule)
    \/ \E biome \in SpawnBiomes, light \in {0, 15} :
            TrySpawnInChunk(biome, <<0, 0>>, light)

SpecSpawn == InitSpawn /\ [][NextSpawn]_vars

---------------------------------------------------------------------------
(* SpecDrain: updates enqueued from outside with delays up to the last     *)
(* value of the tick counter, under a caller that keeps calling update     *)

\* The delays of the enqueued updates
DrainDelays == {0, MaxTick}

InitDrain ==
    InitWith({1}, {WeatheringRules}, WorldsOver({East}, WorldBlocks \ {None}))

NextDrain ==
    \/ \E d \in DrainDelays : ScheduleBlockUpdate(East, "Copper", d, 0)
    \/ Update({})
    \/ \E c \in WorldBlocks : WorldChange(East, c)

\* update is called every game tick
SpecDrain == InitDrain /\ [][NextDrain]_vars /\ WF_vars(Update({}))

---------------------------------------------------------------------------
(* SpecScan: the game ticks of worlds that hold blocks of kinds with and   *)
(* without random ticks, where a tick turns a kind of one sort into a kind *)
(* of the other                                                            *)

\* Stone becomes Copper, which receives random ticks, and Copper becomes
\* OxidizedCopper, which receives none
ScanRules ==
    << Rule("Stone", "Copper", << >>),
       Rule("Copper", "OxidizedCopper", << >>) >>

ScanBlocks ==
    {None} \cup {Some([kind |-> k, props |-> NoProps]) :
                    k \in {"Stone", "Copper", "OxidizedCopper"}}

InitScan ==
    InitWith({1}, {ScanRules}, WorldsOver({Center, East, West}, ScanBlocks))

NextScan ==
    \/ \E c \in ModelChunks : RegisterChunk(c)
    \/ \E k \in {"Stone", "Copper"} : ScheduleTick(Center, k, 0, 0)
    \/ \E chunks \in RegionTables : Update(chunks)

SpecScan == InitScan /\ [][NextScan]_vars

-----
(* Claims about the tick queue, checked under Spec *)

\* The pending entries of a position
PendingAt(p) == {t \in BagToSet(pending_ticks) : t.position = p}

\* The number of pending entries of a position, copies counted
CountAt(p) ==
    BagCardinality([t \in PendingAt(p) |-> CopiesIn(t, pending_ticks)])

\* The part of a heap that is due at clock value t, and the rest
DuePart(heap, t) ==
    [x \in {y \in BagToSet(heap) : y.scheduled_time <= t} |-> CopiesIn(x, heap)]
LaterPart(heap, t) ==
    [x \in {y \in BagToSet(heap) : y.scheduled_time > t} |-> CopiesIn(x, heap)]

\* The ticks process_ticks handed to the handler, in order
Yielded == [i \in 1..Len(handled) |-> handled[i].tick]

\* C1: every tick process_ticks yields is the tick of the most recent
\* schedule_tick call for its position, and no other tick has been yielded for
\* the position since that call (a replaced tick is never yielded).
C1_DedupLatestOnly ==
    lastOp.op = "process_ticks" =>
        \A i \in 1..Len(handled) : expected[i] = Some(handled[i].tick)

\* C2: the heap never holds two entries of one position, and right after
\* schedule_tick(P, ..) it holds exactly one entry of P.
C2_OnePendingPerPosition ==
    /\ \A p \in Positions : CountAt(p) <= 1
    /\ lastOp.op = "schedule_tick" => CountAt(lastOp.position) = 1

\* C4: of two pending ticks with due times t1 < t2 <= now, a process_ticks
\* call hands both to the handler, the one due at t1 before the one due at t2.
C4_DueTimeOrder ==
    [][lastOp'.op = "process_ticks" =>
            \A a, b \in BagToSet(pending_ticks) :
                a.scheduled_time < b.scheduled_time /\ b.scheduled_time <= now =>
                    /\ \E i, j \in 1..Len(handled') : Yielded'[i] = a /\ Yielded'[j] = b
                    /\ \A i, j \in 1..Len(handled') :
                            Yielded'[i] = a /\ Yielded'[j] = b => i < j]_vars

C4_Witness ==
    /\ lastOp.op = "process_ticks"
    /\ \E i, j \in 1..Len(handled) :
            Yielded[i].scheduled_time < Yielded[j].scheduled_time

\* C5: of two pending ticks (each the latest scheduled for its position) with
\* the same due time, process_ticks yields the one with the numerically lower
\* priority value first.
C5_LowerPriorityValueFirst ==
    lastOp.op = "process_ticks" =>
        \A i, j \in 1..Len(handled) :
            /\ expected[i] = Some(Yielded[i]) /\ expected[j] = Some(Yielded[j])
            /\ Yielded[i].scheduled_time = Yielded[j].scheduled_time
            /\ Yielded[i].priority < Yielded[j].priority
            => i < j

\* C6: a process_ticks call at clock value now yields exactly the pending
\* ticks with scheduled_time <= now, and leaves exactly the pending ticks with
\* scheduled_time > now in the heap.
C6_DuePrefix ==
    [][lastOp'.op = "process_ticks" =>
            /\ RunBag(Yielded') = DuePart(pending_ticks, now)
            /\ pending_ticks' = LaterPart(pending_ticks, now)
            /\ \A i \in 1..Len(handled') : Yielded'[i].scheduled_time <= now']_vars

C6_Witness ==
    /\ lastOp.op = "process_ticks"
    /\ handled # << >>
    /\ pending_ticks # EmptyBag

---------------------------------------------------------------------------
(* Claims about the executor's scheduled ticks, checked under SpecExec *)

\* A handler call whose tick is stale: a block is there, of another kind
Stale(h) == \E cur \in h.current : cur.kind # h.tick.kind

\* C3: for a due tick whose recorded kind differs from the kind block_getter
\* reports, block_setter is not called and the tick behaviour is not reached;
\* the call still handles every due tick.
C3_StaleTickDiscarded ==
    lastOp.op = "process_ticks" =>
        /\ \A i \in 1..Len(handled) :
                Stale(handled[i]) => handled[i].set = None /\ ~handled[i].dispatched
        /\ \A t \in BagToSet(pending_ticks) : t.scheduled_time > now

\* a stale tick for a block a rule would fire on, followed by a tick that sets
C3_Witness ==
    /\ lastOp.op = "process_ticks"
    /\ \E i, j \in 1..Len(handled) :
            /\ i < j
            /\ Stale(handled[i])
            /\ \E cur \in handled[i].current :
                    CheckTransition(transitions, cur.kind, cur.props) # None
            /\ handled[j].set # None

---------------------------------------------------------------------------
(* Claims about random ticks, checked under SpecRandom *)

\* C9: one process_random_ticks call invokes the handler random_tick_speed
\* times when the candidate list is non-empty and never when it is empty.
C9_SamplerBudget ==
    lastOp.op = "process_random_ticks" =>
        Len(handled) = IF lastOp.blocks = << >> THEN 0 ELSE random_tick_speed

\* more handler calls than candidates
C9_Witness ==
    /\ lastOp.op = "process_random_ticks"
    /\ Len(lastOp.blocks) = 1
    /\ Len(handled) = 2

\* The call of the random-tick scenario: the rule Copper -> ExposedCopper on
\* RandomTick(1.0), a Copper block at (0,64,0) the sole candidate, budget 1
ScenarioCall ==
    /\ lastOp.op = "process_random_ticks"
    /\ transitions = ScenarioRules
    /\ lastOp.blocks = << [kind |-> "Copper", position |-> <<0, 64, 0>>] >>
    /\ random_tick_speed = 1
    /\ Len(handled) = 1
    /\ \E cur \in handled[1].current : cur.kind = "Copper"

\* C10: in the scenario block_setter is called once, with ((0,64,0),
\* ExposedCopper): a RandomTick(1.0) condition succeeds.
C10_ScenarioSetsExposedCopper ==
    ScenarioCall =>
        /\ handled[1].set = Some("ExposedCopper")
        /\ \E cur \in world[<<0, 64, 0>>] : cur.kind = "ExposedCopper"

---------------------------------------------------------------------------
(* Claims about check_transition, checked under SpecQuery *)

\* The rules of the table that match the query: source and all conditions
Matching ==
    {i \in 1..Len(transitions) :
        /\ transitions[i].source_kind = q_kind
        /\ \A c \in 1..Len(transitions[i].conditions) :
                CheckCondition(transitions[i].conditions[c], q_props)}

\* C7: check_transition returns the target of the first registered rule whose
\* source is the kind and whose conditions all hold, and none when there is no
\* such rule.
C7_FirstMatch ==
    lastOp.op = "check_transition" =>
        /\ Matching = {} => q_result = None
        /\ \A i \in Matching :
                (\A j \in Matching : i <= j) => q_result = Some(transitions[i].target_kind)

\* two satisfied rules of the queried source with different targets
C7_Witness ==
    /\ lastOp.op = "check_transition"
    /\ \E i, j \in Matching :
            /\ i < j
            /\ transitions[i].target_kind # transitions[j].target_kind
            /\ q_result = Some(transitions[i].target_kind)

\* C8: a target is returned only on account of a rule of the queried source
\* every condition of which holds.
C8_AllConditions ==
    lastOp.op = "check_transition" =>
        \A t \in q_result : \E i \in Matching : transitions[i].target_kind = t

\* a rule of the queried source with one condition true and one false, and no
\* target returned
C8_Witness ==
    /\ lastOp.op = "check_transition"
    /\ q_result = None
    /\ \E i \in 1..Len(transitions) :
            /\ transitions[i].source_kind = q_kind
            /\ \E c, d \in 1..Len(transitions[i].conditions) :
                    /\ CheckCondition(transitions[i].conditions[c], q_props)
                    /\ ~CheckCondition(transitions[i].conditions[d], q_props)

---------------------------------------------------------------------------
\* The number of handler calls of a log that were for tick x
HandedCopies(log, x) == Cardinality({i \in 1..Len(log) : log[i].tick = x})

\* C19: every event process_ticks hands to the handler leaves the heap in the
\* same call, one heap entry for each handler call, so that it cannot be
\* handed again; the heap gains an entry only by a schedule_tick call, which
\* adds exactly one
C19_ConsumedOnce ==
    [][/\ lastOp'.op = "process_ticks" =>
            \A x \in BagToSet(pending_ticks) \cup {handled'[i].tick : i \in 1..Len(handled')} :
                /\ HandedCopies(handled', x) <= CopiesIn(x, pending_ticks)
                /\ CopiesIn(x, pending_ticks') =
                        CopiesIn(x, pending_ticks) - HandedCopies(handled', x)
       /\ lastOp'.op = "schedule_tick" =>
            /\ pending_ticks \sqsubseteq pending_ticks'
            /\ BagCardinality(pending_ticks') = BagCardinality(pending_ticks) + 1
       /\ lastOp'.op \notin {"process_ticks", "schedule_tick"} =>
            pending_ticks' \sqsubseteq pending_ticks
      ]_vars

\* A process_ticks call handed on two equal events, each scheduled by a call
\* of its own, and left a later one in the heap
C19_Witness ==
    /\ lastOp.op = "process_ticks"
    /\ \E i, j \in 1..Len(handled) : i < j /\ handled[i].tick = handled[j].tick
    /\ pending_ticks # EmptyBag

\* C20: clear leaves the heap and the position map empty, and from an empty
\* heap and map no call other than schedule_tick makes either non-empty and
\* process_ticks hands nothing to the handler
C20_ClearDropsAll ==
    [][/\ lastOp'.op = "clear" =>
            pending_ticks' = EmptyBag /\ position_to_tick' = NoMap
       /\ (/\ pending_ticks = EmptyBag
           /\ position_to_tick = NoMap
           /\ lastOp'.op # "schedule_tick") =>
            /\ pending_ticks' = EmptyBag
            /\ position_to_tick' = NoMap
            /\ handled' = << >>
      ]_vars

\* A clear dropped two pending events after the clock had moved on
C20_Witness ==
    /\ lastOp.op = "clear"
    /\ lastOp.dropped >= 2
    /\ now >= 1
    /\ pending_ticks = EmptyBag

---------------------------------------------------------------------------
\* The six positions next to pos along an axis
SixNeighbours(pos) ==
    {<<pos[1] + d, pos[2], pos[3]>> : d \in {-1, 1}}
    \cup {<<pos[1], pos[2] + d, pos[3]>> : d \in {-1, 1}}
    \cup {<<pos[1], pos[2], pos[3] + d>> : d \in {-1, 1}}

\* The entries a step appended to the pending list
Appended == SubSeq(pending_updates', Len(pending_updates) + 1, Len(pending_updates'))

\* C11: on_block_changed and propagate_block_update at P keep the entries
\* pending before and append exactly one entry for each of the six neighbours
\* of P that is a valid position where block_getter reports a block, and none
\* for any other; each entry has delay 1, priority 0 and the kind
\* block_getter reports at its position
C11_FanOut ==
    [][lastOp'.op \in {"on_block_changed", "propagate_block_update"} =>
        /\ Len(pending_updates') >= Len(pending_updates)
        /\ SubSeq(pending_updates', 1, Len(pending_updates)) = pending_updates
        /\ \A n \in SixNeighbours(lastOp'.position) :
                Cardinality({i \in 1..Len(Appended) : Appended[i].position = n})
                    = IF ValidPosition(n) /\ BlockGetter(world, n) # None THEN 1 ELSE 0
        /\ \A i \in 1..Len(Appended) :
                /\ Appended[i].position \in SixNeighbours(lastOp'.position)
                /\ Appended[i].delay = 1
                /\ Appended[i].priority = 0
                /\ \E b \in BlockGetter(world, Appended[i].position) :
                        b.kind = Appended[i].kind
      ]_vars

\* Six entries are pending after a notification at the block whose
\* neighbours all hold a block
C11_Witness ==
    /\ lastOp.op \in {"on_block_changed", "propagate_block_update"}
    /\ lastOp.position = Center
    /\ Len(pending_updates) = 6
    /\ \A n \in SixNeighbours(Center) : world[n] # None

\* C12: on_block_changed(P, new_kind) pushes one Scheduled tick at P for
\* new_kind, due now, with priority 0, when new_kind receives random ticks,
\* and leaves the tick queue as it was when it does not
C12_TickIffEligible ==
    [][lastOp'.op = "on_block_changed" =>
        LET tick == BlockTick(lastOp'.position, lastOp'.kind, now, "Scheduled", 0)
        IN  IF ReceivesRandomTicks(lastOp'.kind)
            THEN /\ pending_ticks' = pending_ticks (+) SetToBag({tick})
                 /\ position_to_tick' =
                        [position_to_tick EXCEPT ![lastOp'.position] = Some(tick)]
            ELSE /\ pending_ticks' = pending_ticks
                 /\ position_to_tick' = position_to_tick
      ]_vars

\* on_block_changed for Copper left its tick in the queue
C12_Witness ==
    /\ lastOp.op = "on_block_changed"
    /\ lastOp.kind = "Copper"
    /\ position_to_tick[lastOp.position] # None
    /\ pending_ticks # EmptyBag

---------------------------------------------------------------------------
\* C13: every update call hands all scheduled events that are due to the
\* handler, whatever chunks are registered and whatever the region table holds
C13_ScheduledTicksGlobal ==
    [][lastOp'.op = "update" =>
        RunBag(Yielded') = DuePart(pending_ticks, now)
      ]_vars

\* An update with no chunk registered ran a scheduled tick that set a block
C13_Witness ==
    /\ lastOp.op = "update"
    /\ registered_chunks = {}
    /\ \E i \in 1..Len(handled) : handled[i].set # None

\* The chunks whose blocks the handler calls of a log were for
ChunksOf(log) ==
    {c \in ModelChunks : \E i \in 1..Len(log) : log[i].tick.position \in ChunkBlocks(c)}

\* C14: an update samples random ticks once for each chunk that is
\* registered and in the region table and for no other chunk; every random
\* tick and every block it sets lies in such a chunk
C14_RegisteredAndPresent ==
    lastOp.op = "update" =>
        /\ {lastOp.sampled[i].chunk : i \in 1..Len(lastOp.sampled)}
                = registered_chunks \cap lastOp.chunks
        /\ Len(lastOp.sampled) = Cardinality(registered_chunks \cap lastOp.chunks)
        /\ ChunksOf(lastOp.random) \subseteq registered_chunks \cap lastOp.chunks

\* An update random-ticked the registered chunk of the table while the
\* chunk that is in the table and not registered held a Copper block
C14_Witness ==
    /\ lastOp.op = "update"
    /\ registered_chunks = {<<0, 0>>}
    /\ lastOp.chunks = ModelChunks
    /\ \E i \in 1..Len(lastOp.random) : lastOp.random[i].set # None
    /\ world[West] = Some([kind |-> "Copper", props |-> NoProps])

\* The tick a removed pending update is promoted to at clock value t
PromotedTick(update, t) ==
    BlockTick(update.position, update.kind, t, "Scheduled", update.priority)

\* C15: an update promotes a pending update it removes exactly when
\* block_getter reports a block of the recorded kind at its position; the heap
\* it leaves holds, besides what the scheduled pass left, one Scheduled tick
\* due now with the position, kind and priority of each promoted update, and
\* nothing for an update that is not promoted
C15_Revalidation ==
    [][lastOp'.op = "update" =>
        LET drained == lastOp'.drained
        IN  /\ \A i \in 1..Len(drained) :
                    /\ drained[i].current = BlockGetter(world', drained[i].update.position)
                    /\ drained[i].promoted =
                            (\E b \in drained[i].current : b.kind = drained[i].update.kind)
            /\ \A x \in BagToSet(pending_ticks) \cup BagToSet(pending_ticks') :
                    CopiesIn(x, pending_ticks') =
                        CopiesIn(x, pending_ticks) - HandedCopies(handled', x)
                        + Cardinality({i \in 1..Len(drained) :
                                /\ drained[i].promoted
                                /\ PromotedTick(drained[i].update, now) = x})
      ]_vars

\* An update removed an update whose block had changed kind without
\* promoting it
C15_Witness ==
    /\ lastOp.op = "update"
    /\ \E i \in 1..Len(lastOp.drained) :
            /\ ~lastOp.drained[i].promoted
            /\ lastOp.drained[i].current # None

\* C16: an update adds one to the tick counter, removes the pending updates
\* whose delay is at most the new counter and keeps the others in their order
C16_DrainCondition ==
    [][lastOp'.op = "update" =>
        LET Later(u) == u.delay > current_tick'
            Due(u) == u.delay <= current_tick'
        IN  /\ current_tick' = current_tick + 1
            /\ pending_updates' = SelectSeq(pending_updates, Later)
            /\ [i \in 1..Len(lastOp'.drained) |-> lastOp'.drained[i].update]
                    = SelectSeq(pending_updates, Due)
      ]_vars

\* An update removed an update and kept another
C16_Witness ==
    /\ lastOp.op = "update"
    /\ lastOp.drained # << >>
    /\ pending_updates # << >>

\* C17: an update hands to the handler only ticks the heap held when the call
\* began and leaves every tick it promotes in the heap, and a change
\* notification at P puts the neighbours on the pending list and no tick for a
\* neighbour in the heap; so the tick of a neighbour update enqueued before
\* update N+1 is in the heap first at the end of update N+1 and is handed to
\* the handler in update N+2 at the earliest
C17_CascadeDelay ==
    [][/\ lastOp'.op = "update" =>
            /\ \A x \in BagToSet(pending_ticks) \cup {handled'[i].tick : i \in 1..Len(handled')} :
                    HandedCopies(handled', x) <= CopiesIn(x, pending_ticks)
            /\ \A i \in 1..Len(lastOp'.drained) :
                    lastOp'.drained[i].promoted =>
                        CopiesIn(PromotedTick(lastOp'.drained[i].update, now), pending_ticks')
                            >= Cardinality({j \in 1..Len(lastOp'.drained) :
                                    /\ lastOp'.drained[j].promoted
                                    /\ PromotedTick(lastOp'.drained[j].update, now)
                                            = PromotedTick(lastOp'.drained[i].update, now)})
       /\ lastOp'.op \in {"on_block_changed", "propagate_block_update"} =>
            \A x \in BagToSet(pending_ticks') :
                x.position # lastOp'.position =>
                    CopiesIn(x, pending_ticks') = CopiesIn(x, pending_ticks)
      ]_vars

\* The second update ran the tick of a neighbour whose update was enqueued
\* before the first update and promoted by it
C17_Witness ==
    /\ lastOp.op = "update"
    /\ current_tick = 2
    /\ \E i \in 1..Len(handled) :
            /\ handled[i].tick.position = West
            /\ handled[i].set # None

---------------------------------------------------------------------------
\* A handler call that found no block set nothing and reached no behaviour
SkippedIfMissing(log) ==
    \A i \in 1..Len(log) :
        log[i].current = None => log[i].set = None /\ ~log[i].dispatched

\* C18: where block_getter reports no block, a scheduled tick, a random tick,
\* a pending update and a neighbour are passed over: block_setter is not
\* called, no block appears, nothing is scheduled or enqueued for the item,
\* and the other items of the call are processed all the same
C18_MissingBlockSkipped ==
    [][/\ lastOp'.op \in {"process_random_ticks", "update"} =>
            /\ SkippedIfMissing(handled')
            /\ \A p \in AllPositions : world[p] = None => world'[p] = None
       /\ lastOp'.op = "process_random_ticks" =>
            Len(handled') = random_tick_speed
       /\ lastOp'.op = "update" =>
            LET drained == lastOp'.drained
                Due(u) == u.delay <= current_tick'
            IN  /\ RunBag(Yielded') = DuePart(pending_ticks, now)
                /\ \A i \in 1..Len(handled') :
                        \A b \in handled'[i].current :
                            b.kind = handled'[i].tick.kind =>
                                handled'[i].set
                                    = CheckTransition(transitions, b.kind, b.props)
                /\ [i \in 1..Len(drained) |-> drained[i].update]
                        = SelectSeq(pending_updates, Due)
                /\ \A i \in 1..Len(drained) :
                        /\ drained[i].current = None => ~drained[i].promoted
                        /\ drained[i].promoted =>
                                CopiesIn(PromotedTick(drained[i].update, now),
                                         pending_ticks') >= 1
                        /\ (\E b \in drained[i].current : b.kind = drained[i].update.kind)
                                => drained[i].promoted
                /\ BagCardinality(pending_ticks') =
                        BagCardinality(pending_ticks) - Len(handled')
                        + Cardinality({i \in 1..Len(drained) : drained[i].promoted})
       /\ lastOp'.op = "propagate_block_update" =>
            /\ \A i \in 1..Len(Appended) : world[Appended[i].position] # None
            /\ Len(Appended) =
                    Cardinality({n \in SixNeighbours(lastOp'.position) :
                                    BlockGetter(world, n) # None})
      ]_vars

\* An update passed over a scheduled tick and a pending update whose block
\* was missing, then ran a tick that set a block and promoted an update
C18_Witness ==
    /\ lastOp.op = "update"
    /\ \E i, j \in 1..Len(handled) :
            /\ i < j
            /\ handled[i].current = None
            /\ handled[j].set # None
    /\ \E i, j \in 1..Len(lastOp.drained) :
            /\ i < j
            /\ lastOp.drained[i].current = None
            /\ lastOp.drained[j].promoted
    /\ \E i, j \in 1..Len(handled) :
            /\ i < j
            /\ handled[i].current = None
            /\ handled[j].set # None

---------------------------------------------------------------------------
\* Whether a condition holds of the queried block when the world-context
\* conditions are answered by the world and the others by check_condition
HoldsInContext(condition) ==
    IF condition.type \in {"ExposedToSky", "Connected", "InBiome"}
    THEN condition \in q_context
    ELSE CheckCondition(condition, q_props)

\* The rules of the queried source all of whose conditions hold in context
MatchingInContext ==
    {i \in 1..Len(transitions) :
        /\ transitions[i].source_kind = q_kind
        /\ \A c \in 1..Len(transitions[i].conditions) :
                HoldsInContext(transitions[i].conditions[c])}

\* C21: check_transition returns the target of the first rule of the queried
\* source whose ExposedToSky, Connected and InBiome conditions are true of
\* the block in the world and whose other conditions hold, and none when
\* there is no such rule
C21_OracleResolved ==
    lastOp.op = "check_transition" =>
        /\ MatchingInContext = {} => q_result = None
        /\ \A i \in MatchingInContext :
                (\A j \in MatchingInContext : i <= j)
                    => q_result = Some(transitions[i].target_kind)

---------------------------------------------------------------------------
\* C22: register_chunk makes its chunk registered and unregister_chunk makes
\* it unregistered, whatever it was before and however often it had been
\* registered, and neither changes whether another chunk is registered
C22_RegionSet ==
    [][/\ lastOp'.op = "register_chunk" =>
            registered_chunks' = registered_chunks \cup {lastOp'.chunk}
       /\ lastOp'.op = "unregister_chunk" =>
            registered_chunks' = registered_chunks \ {lastOp'.chunk}
       /\ lastOp'.op \notin {"register_chunk", "unregister_chunk"} =>
            registered_chunks' = registered_chunks
      ]_vars

\* A chunk that was registered already was registered again and is the
\* only registered chunk
C22_Witness ==
    /\ lastOp.op = "register_chunk"
    /\ lastOp.was
    /\ registered_chunks = {lastOp.chunk}

---------------------------------------------------------------------------
\* C23: every event that BlockTickExecutor::schedule_tick, on_block_changed
\* or the promotion of a pending update put in the queue has tick_type
\* Scheduled, in the heap and in the position map, and is handed to the
\* handler with that type
C23_ScheduledType ==
    /\ \A x \in BagToSet(pending_ticks) : x.tick_type = "Scheduled"
    /\ \A p \in AllPositions : \A x \in position_to_tick[p] : x.tick_type = "Scheduled"
    /\ lastOp.op = "update" =>
            \A i \in 1..Len(handled) : handled[i].tick.tick_type = "Scheduled"

\* An update handed on events of two positions and promoted an update to
\* an event that is in the queue
C23_Witness ==
    /\ lastOp.op = "update"
    /\ \E i, j \in 1..Len(handled) : handled[i].tick.position # handled[j].tick.position
    /\ \E i \in 1..Len(lastOp.drained) : lastOp.drained[i].promoted
    /\ pending_ticks # EmptyBag

---------------------------------------------------------------------------
\* Whether each handler call of log read what block_getter reports when the
\* calls and their block_setter writes happen in the order of log from w on
RECURSIVE ReadsInOrder(_, _)
ReadsInOrder(w, log) ==
    \/ log = << >>
    \/ /\ Head(log).current = BlockGetter(w, Head(log).tick.position)
       /\ ReadsInOrder(WorldAfter(w, Head(log).tick.position, Head(log).set), Tail(log))

\* The world after the block_setter writes of log
RECURSIVE WrittenBy(_, _)
WrittenBy(w, log) ==
    IF log = << >> THEN w
    ELSE WrittenBy(WorldAfter(w, Head(log).tick.position, Head(log).set), Tail(log))

\* C24: an update runs the due scheduled ticks on the world as it found it,
\* then the random ticks on the world the scheduled ticks left, then
\* promotes pending updates reading the world the random ticks left; the
\* events it promotes are still in the heap when it returns, none of them
\* having been handed to the handler
C24_PhaseOrder ==
    [][lastOp'.op = "update" =>
        LET afterTicks == WrittenBy(world, handled')
            afterRandom == WrittenBy(afterTicks, lastOp'.random)
            drained == lastOp'.drained
        IN  /\ ReadsInOrder(world, handled')
            /\ ReadsInOrder(afterTicks, lastOp'.random)
            /\ world' = afterRandom
            /\ \A i \in 1..Len(drained) :
                    drained[i].current = BlockGetter(afterRandom, drained[i].update.position)
            /\ BagCardinality(pending_ticks') =
                    BagCardinality(LaterPart(pending_ticks, now))
                    + Cardinality({i \in 1..Len(drained) : drained[i].promoted})
      ]_vars

\* An update random-ticked a block that one of its scheduled ticks had set
\* and found the kind the scheduled tick wrote
C24_Witness ==
    /\ lastOp.op = "update"
    /\ \E i \in 1..Len(handled), j \in 1..Len(lastOp.random) :
            /\ handled[i].set # None
            /\ lastOp.random[j].tick.position = handled[i].tick.position
            /\ \E b \in lastOp.random[j].current : handled[i].set = Some(b.kind)

---------------------------------------------------------------------------
\* The positions of a chunk where world w holds a kind that receives random
\* ticks
EligibleIn(chunk, w) ==
    {p \in ChunkBlocks(chunk) : \E b \in BlockGetter(w, p) : b.kind \in RandomTickKinds}

\* C25: the candidate list an update builds for a chunk holds, once each and
\* with the kind found, exactly the positions of the chunk where block_getter
\* reports a kind that receives random ticks when the scheduled ticks of the
\* update are done; every random tick of the update is for such a position
C25_EligibleCandidates ==
    [][lastOp'.op = "update" =>
        LET scanned == WrittenBy(world, handled')
            sampled == lastOp'.sampled
        IN  /\ \A s \in 1..Len(sampled) :
                    LET blocks == sampled[s].blocks
                    IN  /\ {blocks[i].position : i \in 1..Len(blocks)}
                                = EligibleIn(sampled[s].chunk, scanned)
                        /\ Len(blocks) = Cardinality(EligibleIn(sampled[s].chunk, scanned))
                        /\ \A i \in 1..Len(blocks) :
                                \E b \in BlockGetter(scanned, blocks[i].position) :
                                    b.kind = blocks[i].kind
            /\ \A j \in 1..Len(lastOp'.random) :
                    \E b \in BlockGetter(scanned, lastOp'.random[j].tick.position) :
                        b.kind \in RandomTickKinds
      ]_vars

\* An update sampled a chunk that held a Stone block and an OxidizedCopper
\* block at scan time and random-ticked another block of the chunk
C25_Witness ==
    /\ lastOp.op = "update"
    /\ \E s \in 1..Len(lastOp.sampled) :
            /\ lastOp.sampled[s].chunk = <<0, 0>>
            /\ Len(lastOp.sampled[s].blocks) = 1
    /\ lastOp.random # << >>
    /\ \E p, q \in ChunkBlocks(<<0, 0>>) :
            /\ \E b \in world[p] : b.kind = "Stone"
            /\ \E b \in world[q] : b.kind = "OxidizedCopper"

---------------------------------------------------------------------------
\* An update with delay d is on the pending list
PendingWithDelay(d) ==
    \E i \in 1..Len(pending_updates) : pending_updates[i].delay = d

\* C26: while update keeps being called, a pending update is in the end
\* removed from the list, and no update leaves on the list an entry whose
\* delay is at most the counter value the update reached; so an entry of
\* delay d enqueued at counter value c is gone after the update in which the
\* counter reaches the larger of d and c + 1
C26_EventuallyDrained ==
    /\ \A d \in DrainDelays :
            (PendingWithDelay(d) /\ current_tick < MaxTick) ~> ~PendingWithDelay(d)
    /\ [][lastOp'.op = "update" =>
            \A i \in 1..Len(pending_updates') :
                pending_updates'[i].delay > current_tick']_vars

\* The update in which the counter reached the largest delay removed an
\* entry of that delay and left the list empty
C26_Witness ==
    /\ lastOp.op = "update"
    /\ current_tick = MaxTick
    /\ \E i \in 1..Len(lastOp.drained) :
            lastOp.drained[i].update.delay = MaxTick
    /\ pending_updates = << >>

---------------------------------------------------------------------------
\* The handler calls of a step, in the order they were made
HandlerCalls(op, log) ==
    IF op.op = "update" THEN log \o op.random ELSE log

\* C27: every block_setter call of a handler passes the target kind of a
\* registered rule whose source kind is the kind block_getter reported at
\* the position immediately before, and the world changes by these calls
\* alone: propagate_block_update, on_block_changed and the promotion of
\* pending updates write no block
C27_SetterFollowsRule ==
    [][lastOp'.op # "env" =>
        LET calls == HandlerCalls(lastOp', handled')
        IN  /\ ReadsInOrder(world, calls)
            /\ world' = WrittenBy(world, calls)
            /\ \A i \in 1..Len(calls) :
                    calls[i].set # None =>
                        \E b \in calls[i].current, r \in 1..Len(transitions) :
                            /\ transitions[r].source_kind = b.kind
                            /\ calls[i].set = Some(transitions[r].target_kind)
            /\ lastOp'.op \in {"propagate_block_update", "on_block_changed"}
                    => world' = world
      ]_vars

\* An update whose scheduled tick set a block and which promoted a pending
\* update
C27_Witness ==
    /\ lastOp.op = "update"
    /\ \E i \in 1..Len(handled) : handled[i].set # None
    /\ \E i \in 1..Len(lastOp.drained) : lastOp.drained[i].promoted

---------------------------------------------------------------------------
\* C28: each random tick of a process_random_ticks call reads the block at
\* the position of the picked candidate as the earlier ticks of the call left
\* it and passes to block_setter what check_transition returns for the kind
\* and properties read, whatever kind the candidate recorded; a position
\* picked more than once is advanced by each pick that finds a rule
C28_NoStalenessCheck ==
    [][lastOp'.op = "process_random_ticks" =>
        /\ ReadsInOrder(world, handled')
        /\ world' = WrittenBy(world, handled')
        /\ \A i \in 1..Len(handled') :
                handled'[i].set =
                    IF handled'[i].current = None THEN None
                    ELSE LET cur == CHOOSE b \in handled'[i].current : TRUE
                         IN  CheckTransition(transitions, cur.kind, cur.props)
      ]_vars

\* One call picked a position twice, found there a kind other than the one
\* the candidate recorded, and set the block both times, the second time
\* from the kind the first had written
C28_Witness ==
    /\ lastOp.op = "process_random_ticks"
    /\ Len(handled) = 2
    /\ handled[1].tick.position = handled[2].tick.position
    /\ \E b \in handled[1].current : b.kind # handled[1].tick.kind
    /\ handled[1].set # None
    /\ handled[2].set # None
    /\ \E b \in handled[2].current : handled[1].set = Some(b.kind)

---------------------------------------------------------------------------
---------------------------------------------------------------------------
\* The rules of a table for the source kind k
RulesFrom(rules, k) == {r \in 1..Len(rules) : rules[r].source_kind = k}

\* The kinds n rule applications lead to from the kinds of from
RECURSIVE StagesAfter(_, _, _)
StagesAfter(rules, from, n) ==
    IF n = 0 THEN from
    ELSE StagesAfter(rules,
                     {rules[r].target_kind : r \in UNION {RulesFrom(rules, k) : k \in from}},
                     n - 1)

\* C30: in the table of the default engine every source kind has at most one
\* rule, OxidizedCopper and ExposedCutCopper have none, the rules lead from
\* Copper over ExposedCopper and WeatheredCopper to OxidizedCopper and from
\* CutCopper to ExposedCutCopper, no chain of rules leads from a kind back to
\* itself, and no chain is longer than three rules
C30_AcyclicChain ==
    LET kinds == DefaultKinds \cup {transitions[r].target_kind : r \in 1..Len(transitions)}
    IN  /\ \A k \in kinds : Cardinality(RulesFrom(transitions, k)) <= 1
        /\ RulesFrom(transitions, "OxidizedCopper") = {}
        /\ RulesFrom(transitions, "ExposedCutCopper") = {}
        /\ StagesAfter(transitions, {"Copper"}, 1) = {"ExposedCopper"}
        /\ StagesAfter(transitions, {"Copper"}, 2) = {"WeatheredCopper"}
        /\ StagesAfter(transitions, {"Copper"}, 3) = {"OxidizedCopper"}
        /\ StagesAfter(transitions, {"CutCopper"}, 1) = {"ExposedCutCopper"}
        /\ \A k \in kinds, n \in 1..Len(transitions) :
                k \notin StagesAfter(transitions, {k}, n)
        /\ StagesAfter(transitions, kinds, 4) = {}

\* The default engine, holding the four copper rules, was asked about the
\* last stage of the chain and named no successor
C30_Witness ==
    /\ lastOp.op = "check_transition"
    /\ Len(transitions) = 4
    /\ q_kind = "OxidizedCopper"
    /\ q_result = None

---------------------------------------------------------------------------
\* The rules of the table for the queried source
OfQueriedSource == {i \in 1..Len(transitions) : transitions[i].source_kind = q_kind}

\* The queried property map holds the key "powered" with the value "true"
QueriedPowered ==
    "powered" \in DOMAIN q_props /\ q_props["powered"] = "true"

\* C31: when the rules of the queried source are guarded by RedstonePowered
\* alone, check_transition returns a target exactly when the property map
\* holds "powered" with the value "true", the target of the first of them;
\* it returns none when the key is absent or has another value
C31_RedstonePowered ==
    (/\ lastOp.op = "check_transition"
     /\ OfQueriedSource # {}
     /\ \A i \in OfQueriedSource : transitions[i].conditions = <<RedstonePowered>>)
        => /\ QueriedPowered =>
                q_result = Some(transitions[CHOOSE i \in OfQueriedSource :
                                    \A j \in OfQueriedSource : i <= j].target_kind)
           /\ ~QueriedPowered => q_result = None

\* A rule guarded by RedstonePowered alone was asked about a block whose map
\* holds "powered" with the value "false" and did not fire
C31_Witness ==
    /\ lastOp.op = "check_transition"
    /\ OfQueriedSource # {}
    /\ \A i \in OfQueriedSource : transitions[i].conditions = <<RedstonePowered>>
    /\ "powered" \in DOMAIN q_props
    /\ q_props["powered"] = "false"
    /\ q_result = None

\* C32: a rule of the queried source with an empty condition list gives the
\* result of check_transition, whatever the properties, when no rule of the
\* same source registered before it is satisfied
C32_EmptyUnconditional ==
    lastOp.op = "check_transition" =>
        \A i \in OfQueriedSource :
            (/\ transitions[i].conditions = << >>
             /\ \A j \in Matching : j >= i)
                => q_result = Some(transitions[i].target_kind)

\* A rule without conditions gave the result for a block with properties,
\* after an earlier rule of the same source that was not satisfied
C32_Witness ==
    /\ lastOp.op = "check_transition"
    /\ DOMAIN q_props # {}
    /\ Len(transitions) = 2
    /\ transitions[1].source_kind = q_kind
    /\ transitions[1].conditions # << >>
    /\ 1 \notin Matching
    /\ transitions[2].source_kind = q_kind
    /\ transitions[2].conditions = << >>
    /\ q_result = Some(transitions[2].target_kind)

---------------------------------------------------------------------------
\* C33: every position and kind the tick handler is called with in a
\* process_random_ticks call is an element of the candidate list of that
\* call; an element can be handed to the handler more than once
C33_PicksFromCandidates ==
    lastOp.op = "process_random_ticks" =>
        \A i \in 1..Len(handled) :
            \E j \in 1..Len(lastOp.blocks) :
                /\ handled[i].tick.position = lastOp.blocks[j].position
                /\ handled[i].tick.kind = lastOp.blocks[j].kind

\* A call given two candidates at different positions handed one of them to
\* the handler twice and the other not at all
C33_Witness ==
    /\ lastOp.op = "process_random_ticks"
    /\ Len(lastOp.blocks) = 2
    /\ lastOp.blocks[1].position # lastOp.blocks[2].position
    /\ Len(handled) = 2
    /\ handled[1].tick = lastOp.blocks[2]
    /\ handled[2].tick = lastOp.blocks[2]

---------------------------------------------------------------------------
\* The entries of a heap for position q, copies counted
HeapAt(heap, q) ==
    [t \in {x \in BagToSet(heap) : x.position = q} |-> CopiesIn(t, heap)]

\* C34: schedule_tick for position P leaves, for every other position, the
\* heap entries of that position (due time, kind, type and priority, copies
\* counted) and its entry in the position map as they were
C34_ScheduleFrame ==
    [][lastOp'.op = "schedule_tick" =>
        \A q \in AllPositions \ {lastOp'.position} :
            /\ HeapAt(pending_ticks', q) = HeapAt(pending_ticks, q)
            /\ position_to_tick'[q] = position_to_tick[q]
      ]_vars

\* A schedule_tick for a position that had a pending event, made while
\* another position had one too
C34_Witness ==
    /\ lastOp.op = "schedule_tick"
    /\ BagCardinality(HeapAt(pending_ticks, lastOp.position)) = 2
    /\ \E q \in Positions \ {lastOp.position} :
            /\ HeapAt(pending_ticks, q) # EmptyBag
            /\ position_to_tick[q] # None

---------------------------------------------------------------------------
\* C36: in every state reached by schedule_tick, process_ticks and clear,
\* each tick in position_to_tick is filed under its own position and is in
\* the heap with the same position, scheduled time, kind, type and priority
C36_MapBackedByHeap ==
    \A p \in DOMAIN position_to_tick :
        \A t \in position_to_tick[p] :
            /\ t.position = p
            /\ CopiesIn(t, pending_ticks) >= 1

\* process_ticks popped the event of one position and left another position
\* in the map, its event still in the heap
C36_Witness ==
    /\ lastOp.op = "process_ticks"
    /\ handled # << >>
    /\ \E p \in Positions :
            /\ position_to_tick[p] # None
            /\ \A i \in 1..Len(handled) : handled[i].tick.position # p

---------------------------------------------------------------------------
\* C35: propagate_block_update writes no block, leaves the heap, the
\* position map, the tick counter and the registered regions as they were,
\* and leaves the pending updates it found at the head of the list in their
\* order, the new ones after them
C35_PropagateFrame ==
    [][lastOp'.op = "propagate_block_update" =>
        /\ world' = world
        /\ pending_ticks' = pending_ticks
        /\ position_to_tick' = position_to_tick
        /\ current_tick' = current_tick
        /\ registered_chunks' = registered_chunks
        /\ Len(pending_updates') >= Len(pending_updates)
        /\ SubSeq(pending_updates', 1, Len(pending_updates)) = pending_updates
      ]_vars

\* A propagation found an update pending and events in the heap, after an
\* update had run, and appended the updates of two neighbours, the first of
\* them for another position than the update found
C35_Witness ==
    /\ lastOp.op = "propagate_block_update"
    /\ pending_ticks # EmptyBag
    /\ current_tick > 0
    /\ Len(pending_updates) = MaxPending + 1
    /\ pending_updates[MaxPending].position # pending_updates[MaxPending - 1].position

---------------------------------------------------------------------------
\* C37: a try_spawn_in_chunk call that finds an applicable rule and computes
\* a positive total selects an applicable rule (find returns one, the unwrap
\* does not fail); a selected rule has a weight above 0; and a call that
\* finds no applicable rule or computes the total 0 does not call the spawner
C37_SelectionSucceeds ==
    lastOp.op = "try_spawn_in_chunk" =>
        /\ (/\ lastOp.applicable # << >>
            /\ \E t \in lastOp.total_weight : t > 0)
                => /\ lastOp.panic = None
                   /\ \E i \in lastOp.selected_rule :
                        \E j \in 1..Len(lastOp.applicable) : lastOp.applicable[j] = i
        /\ \A i \in lastOp.selected_rule :
                /\ lastOp.biome \in spawn_rules[i].biomes
                /\ spawn_rules[i].weight > 0
        /\ (lastOp.applicable = << >> \/ lastOp.total_weight = Some(0))
                => lastOp.spawned = None
        /\ \A e \in lastOp.spawned :
                \E i \in lastOp.selected_rule : e.kind = spawn_rules[i].entity_kind

\* A call drew the largest selection the total allows, passed over an
\* applicable rule of weight 0 and spawned the entity of the rule after it
C37_Witness ==
    /\ lastOp.op = "try_spawn_in_chunk"
    /\ Len(lastOp.applicable) = 2
    /\ spawn_rules[lastOp.applicable[1]].weight = 0
    /\ \E t \in lastOp.total_weight : lastOp.selection = Some(t - 1)
    /\ lastOp.selected_rule = Some(lastOp.applicable[2])
    /\ lastOp.spawned # None

====
